---------------------------- MODULE Spec2Model ----------------------------
(***************************************************************************)
(* A model of xcsv (src/xcsv/__init__.py): the extended-CSV header reader  *)
(* (Reader.read_header / Reader.set_header_key_value), the file-header     *)
(* token grammar and the header writer (Writer.reconstruct_header_lines).  *)
(*                                                                         *)
(* A Python str is a sequence of one-character strings; a text line keeps  *)
(* its terminating "\n", as iterating over a file object yields it.        *)
(* Python's None is the value None below, which no str equals.             *)
(***************************************************************************)
EXTENDS Naturals, Sequences, FiniteSets

VARIABLES
    fp,         \* the stream: the sequence of lines of the file
    pm,         \* the parse_metadata argument of the read
    header,     \* Reader.header: an ordered dict, a sequence of [key, val]
    key,        \* read_header's local variable key
    pos,        \* how many lines the iteration over fp has consumed
    pc,         \* where the Reader is: idle, reading, returned, or the
                \* exception that ended the call
    calls,      \* how many times read_header has been called
    rets,       \* the header as it was when each call returned
    prev,       \* the header and key before the line read last
    last,       \* the line read last (<<>> before any)
    hist,       \* the set_header_key_value calls made directly
    doc,        \* the header of the XCSV object handed to the Writer
    out,        \* the lines written by Writer.write_header
    metadata,   \* XCSV.metadata: whether it is set, its header and its
                \* column_headers
    data,       \* the table: its column labels and its rows of cells
    ret         \* the call made last on the document: its arguments, the
                \* value it returned and the exception it raised

vars == <<fp, pm, header, key, pos, pc, calls, rets, prev, last, hist, doc, out,
          metadata, data, ret>>

\* the variables of the document, which the header reader and writer leave
docvars == <<metadata, data, ret>>

-----------------------------------------------------------------------------
(* Bounds of the model *)

MaxLines == 3       \* lines of a stream
MaxCalls == 2       \* read_header calls on one Reader
MaxSets  == 3       \* direct set_header_key_value calls
MaxElems == 2       \* elements of a list-valued item handed to the Writer

-----------------------------------------------------------------------------
(* Python values *)

None == <<"None">>

\* what d[key] stands for when the dict d has no such key
Missing == <<"Missing">>

Whitespace == {" ", "\n"}

Str(s) == [type |-> "str", str |-> s, value |-> None, units |-> None, items |-> <<>>]

Dict(v, u) == [type |-> "dict", str |-> <<>>, value |-> v, units |-> u, items |-> <<>>]

List(l) == [type |-> "list", str |-> <<>>, value |-> None, units |-> None, items |-> l]

\* None where a str, a dict or a list may stand
NoneValue == [type |-> "None", str |-> <<>>, value |-> None, units |-> None, items |-> <<>>]

Min(S) == CHOOSE x \in S : \A y \in S : x <= y

Max(S) == CHOOSE x \in S : \A y \in S : x >= y

Chars(s) == {s[i] : i \in 1..Len(s)}

\* sep.join(l)
RECURSIVE JoinSeq(_, _)
JoinSeq(l, sep) ==
    IF l = <<>> THEN <<>>
    ELSE IF Len(l) = 1 THEN l[1]
    ELSE l[1] \o sep \o JoinSeq(Tail(l), sep)

-----------------------------------------------------------------------------
(* str methods *)

startswith(s, p) == Len(p) <= Len(s) /\ SubSeq(s, 1, Len(p)) = p

\* the positions at which d occurs in s
FindAll(s, d) == {i \in 1..(Len(s) + 1 - Len(d)) : SubSeq(s, i, i + Len(d) - 1) = d}

\* d in s
contains(s, d) == FindAll(s, d) # {}

\* s.split(d, maxsplit=1): one part when d does not occur in s, else two
split(s, d) ==
    IF ~contains(s, d) THEN <<s>>
    ELSE LET i == Min(FindAll(s, d))
         IN <<SubSeq(s, 1, i - 1), SubSeq(s, i + Len(d), Len(s))>>

\* s.strip()
strip(s) ==
    LET idx == {i \in 1..Len(s) : s[i] \notin Whitespace}
    IN IF idx = {} THEN <<>> ELSE SubSeq(s, Min(idx), Max(idx))

\* s.lstrip(chars): drops the leading run of characters that are in chars
lstrip(s, chars) ==
    LET idx == {i \in 1..Len(s) : s[i] \notin Chars(chars)}
    IN IF idx = {} THEN <<>> ELSE SubSeq(s, Min(idx), Len(s))


-----------------------------------------------------------------------------
(* The token grammar *)

\* DEFAULTS['file_header_pattern'], r'(?P<value>.+)\s+\((?P<units>.+)\)$',
\* searched in a str s that holds no newline.  A match can always be
\* extended to start at the first character; the greedy value group then
\* takes everything up to the last "(" that follows whitespace and leaves
\* at least one character for value and for units; the str must end ")".
\* The result is the groupdict of the match, or None.
parse_tokens_file_header(s) ==
    LET n == Len(s)
        opens == {c \in 3..(n - 2) : s[c] = "(" /\ s[c - 1] \in Whitespace}
    IN IF n >= 5 /\ s[n] = ")" /\ opens # {}
       THEN LET c == Max(opens)
            IN Dict(SubSeq(s, 1, c - 2), SubSeq(s, c + 1, n - 1))
       ELSE NoneValue

\* _strip_tokens: strip every value of the tokens that is a str
strip_tokens(tokens) ==
    IF tokens = NoneValue THEN NoneValue
    ELSE [tokens EXCEPT
            !.value = IF @ = None THEN None ELSE strip(@),
            !.units = IF @ = None THEN None ELSE strip(@)]

parse_file_header_tokens(s) == strip_tokens(parse_tokens_file_header(s))

\* DEFAULTS['file_header_keys'] zipped with DEFAULTS['file_header_templates']:
\* the text a template puts before and after its field
file_header_templates ==
    << [key |-> "value", pre |-> <<>>, post |-> <<>>],
       [key |-> "units", pre |-> <<"(">>, post |-> <<")">>] >>

\* _reconstruct_header_string: the templates of the fields of d that are
\* not None, each filled in, joined by sep
RECURSIVE present_components(_, _)
present_components(d, templates) ==
    IF templates = <<>> THEN <<>>
    ELSE LET t == templates[1]
             rest == present_components(d, Tail(templates))
         IN IF d[t.key] # Missing /\ d[t.key] # None
            THEN <<t.pre \o d[t.key] \o t.post>> \o rest
            ELSE rest

\* _reconstruct_header_string taking the template of every field, absent or
\* not
reconstruct_header_string_keeps_absent(d, templates, sep) ==
    JoinSeq([i \in 1..Len(templates) |->
                templates[i].pre
                \o (IF d[templates[i].key] \in {None, Missing}
                    THEN <<"N", "o", "n", "e">> ELSE d[templates[i].key])
                \o templates[i].post],
            sep)

reconstruct_header_string(d, templates, sep) ==
    JoinSeq(present_components(d, templates), sep)

reconstruct_file_header_string(d) ==
    reconstruct_header_string(d, file_header_templates, <<" ">>)

-----------------------------------------------------------------------------
(* Reader.header as an ordered dict *)

HasKey(h, k) == \E i \in 1..Len(h) : h[i].key = k

IndexOf(h, k) == CHOOSE i \in 1..Len(h) : h[i].key = k

Get(h, k) == h[IndexOf(h, k)].val

Keys(h) == [i \in 1..Len(h) |-> h[i].key]

\* h[k] = v: an existing key keeps its place, a new key goes last
Put(h, k, v) ==
    IF HasKey(h, k) THEN [h EXCEPT ![IndexOf(h, k)].val = v]
    ELSE Append(h, [key |-> k, val |-> v])

\* set_header_key_value with the check made only where a list is appended to
set_header_key_value_checks_append_only(h, k, value) ==
    LET h2 == IF HasKey(h, k)
              THEN IF Get(h, k).type = "list"
                   THEN Put(h, k, List(Append(Get(h, k).items, value)))
                   ELSE Put(h, k, List(<<Get(h, k), value>>))
              ELSE Put(h, k, value)
    IN [header |-> h2,
        raised |-> HasKey(h, k) /\ Get(h, k).type = "list" /\ value.type = "dict"]

\* set_header_key_value with the two elements of a new list swapped
set_header_key_value_swaps_pair(h, k, value) ==
    LET h2 == IF HasKey(h, k)
              THEN IF Get(h, k).type = "list"
                   THEN Put(h, k, List(Append(Get(h, k).items, value)))
                   ELSE Put(h, k, List(<<value, Get(h, k)>>))
              ELSE Put(h, k, value)
    IN [header |-> h2,
        raised |-> Get(h2, k).type = "list" /\ value.type = "dict"]

\* set_header_key_value undoing its change before it raises
set_header_key_value_rolls_back(h, k, value) ==
    LET h2 == IF HasKey(h, k)
              THEN IF Get(h, k).type = "list"
                   THEN Put(h, k, List(Append(Get(h, k).items, value)))
                   ELSE Put(h, k, List(<<Get(h, k), value>>))
              ELSE Put(h, k, value)
        raised == Get(h2, k).type = "list" /\ value.type = "dict"
    IN [header |-> IF raised THEN h ELSE h2, raised |-> raised]

\* Reader.set_header_key_value: the header after the call, and whether the
\* call raised the TypeError of a value/units dict in a list item
set_header_key_value(h, k, value) ==
    LET h2 == IF HasKey(h, k)
              THEN IF Get(h, k).type = "list"
                   THEN Put(h, k, List(Append(Get(h, k).items, value)))
                   ELSE Put(h, k, List(<<Get(h, k), value>>))
              ELSE Put(h, k, value)
    IN [header |-> h2,
        raised |-> Get(h2, k).type = "list" /\ value.type = "dict"]

\* the note of a TypeError: the line it gives as the cause and the dict it
\* gives as what the line was parsed as, if it gives any
Note(line, d) == [type |-> "note", line |-> line, parsed |-> d]

\* XCSV._get_list_header_exception_context(l): the note is about the first
\* element of l that is a dict
get_list_header_exception_context(l) ==
    LET candidates == SelectSeq(l, LAMBDA i : i.type = "dict")
    IN IF candidates # <<>>
       THEN Note(reconstruct_file_header_string(candidates[1]), candidates[1])
       ELSE Note(<<>>, NoneValue)

\* the note of the TypeError that set_header_key_value(h, k, value) raises
set_header_key_value_note(h, k, value) ==
    get_list_header_exception_context(Get(set_header_key_value(h, k, value).header, k).items)

-----------------------------------------------------------------------------
(* Reader.read_header *)

\* codecs.BOM_UTF8.decode('utf-8'), one character
UTF_8_BOM == <<"BOM">>

\* the default arguments of read_header, which Reader.read passes too
ReadComment == <<"#">>

ReadDelimiter == <<":">>

\* a key that is neither None nor '' (if key:)
Truthy(k) == k # None /\ k # <<>>

\* the line with the BOM skipped when it is the first of a UTF-8 stream
skip_bom(line, i) ==
    IF i = 0 /\ startswith(line, UTF_8_BOM)
    THEN SubSeq(line, Len(UTF_8_BOM) + 1, Len(line))
    ELSE line

\* store_value taking the tokens whatever parse_metadata says
store_value_always_parses(h, k, value, parse_metadata) ==
    LET tokens == parse_file_header_tokens(value)
        r == set_header_key_value(h, k, IF tokens # NoneValue THEN tokens ELSE Str(value))
    IN [header |-> r.header, key |-> k,
        exc |-> IF r.raised THEN "TypeError" ELSE "none"]

\* the if parse_metadata: ... block: the value is stored as the dict of its
\* tokens when it has tokens, as the str it is otherwise
store_value(h, k, value, parse_metadata) ==
    LET tokens == IF parse_metadata THEN parse_file_header_tokens(value) ELSE NoneValue
        r == set_header_key_value(h, k, IF tokens # NoneValue THEN tokens ELSE Str(value))
    IN [header |-> r.header, key |-> k,
        exc |-> IF r.raised THEN "TypeError" ELSE "none"]

\* read_line taking what is left of the delimiter as the key even when empty
read_line_empty_left_is_key(h, k, line, parse_metadata, comment, delimiter) ==
    LET parts == split(line, delimiter)
        pad == comment \o <<" ">>
    IN IF Len(parts) = 1
       THEN IF Truthy(k)
            THEN store_value(h, k, lstrip(strip(line), pad), parse_metadata)
            ELSE [header |-> h, key |-> k, exc |-> "ValueError"]
       ELSE store_value(h, lstrip(strip(parts[1]), pad), strip(parts[2]),
                        parse_metadata)

\* read_line continuing the previous key without looking whether there is one
read_line_continues_without_key(h, k, line, parse_metadata, comment, delimiter) ==
    LET parts == split(line, delimiter)
        pad == comment \o <<" ">>
    IN IF Len(parts) = 1
       THEN store_value(h, k, lstrip(strip(line), pad), parse_metadata)
       ELSE LET left == lstrip(strip(parts[1]), pad)
            IN store_value(h, IF left # <<>> THEN left ELSE k,
                           strip(parts[2]), parse_metadata)

\* read_line raising ValueError for an escaped continuation without a key
read_line_rejects_unset_key(h, k, line, parse_metadata, comment, delimiter) ==
    LET parts == split(line, delimiter)
        pad == comment \o <<" ">>
    IN IF Len(parts) = 1
       THEN IF Truthy(k)
            THEN store_value(h, k, lstrip(strip(line), pad), parse_metadata)
            ELSE [header |-> h, key |-> k, exc |-> "ValueError"]
       ELSE LET left == lstrip(strip(parts[1]), pad)
            IN IF left = <<>> /\ ~Truthy(k)
               THEN [header |-> h, key |-> k, exc |-> "ValueError"]
               ELSE store_value(h, IF left # <<>> THEN left ELSE k,
                                strip(parts[2]), parse_metadata)

\* the body of the for loop, for a line that starts with the comment
read_line(h, k, line, parse_metadata, comment, delimiter) ==
    LET parts == split(line, delimiter)
        pad == comment \o <<" ">>
    IN IF Len(parts) = 1
       THEN \* unpacking raised ValueError: a continuation of the previous key
            IF Truthy(k)
            THEN store_value(h, k, lstrip(strip(line), pad), parse_metadata)
            ELSE [header |-> h, key |-> k, exc |-> "ValueError"]
       ELSE LET left == lstrip(strip(parts[1]), pad)
            IN store_value(h, IF left # <<>> THEN left ELSE k,
                           strip(parts[2]), parse_metadata)

-----------------------------------------------------------------------------
(* Writer *)

\* the default arguments of write_header, which Writer.write passes too
WriteComment == <<"#", " ">>

WriteDelimiter == <<":", " ">>

\* '{}'.format(key)
format(k) == IF k = None THEN <<"N", "o", "n", "e">> ELSE k

format_header_line(comment, k, delimiter, value) ==
    comment \o format(k) \o delimiter \o value

header_value_as_string(value) ==
    IF value.type = "dict" THEN reconstruct_file_header_string(value)
    ELSE value.str

\* list_item_lines looking for the delimiter with its padding
RECURSIVE list_item_lines_unstripped(_, _, _, _, _)
list_item_lines_unstripped(k, items, i, comment, delimiter) ==
    IF i > Len(items) THEN <<>>
    ELSE LET value_str == header_value_as_string(items[i])
             cont_delimiter == IF contains(value_str, delimiter)
                               THEN delimiter ELSE <<>>
             line == IF i = 1
                     THEN format_header_line(comment, k, delimiter, value_str)
                     ELSE format_header_line(comment, <<>>, cont_delimiter, value_str)
         IN <<line>> \o list_item_lines_unstripped(k, items, i + 1, comment, delimiter)

\* the lines of the elements i.. of the list value of key k
RECURSIVE list_item_lines(_, _, _, _, _)
list_item_lines(k, items, i, comment, delimiter) ==
    IF i > Len(items) THEN <<>>
    ELSE LET value_str == header_value_as_string(items[i])
             cont_delimiter == IF contains(value_str, strip(delimiter))
                               THEN delimiter ELSE <<>>
             line == IF i = 1
                     THEN format_header_line(comment, k, delimiter, value_str)
                     ELSE format_header_line(comment, <<>>, cont_delimiter, value_str)
         IN <<line>> \o list_item_lines(k, items, i + 1, comment, delimiter)

RECURSIVE reconstruct_header_lines(_, _, _)
reconstruct_header_lines(h, comment, delimiter) ==
    IF h = <<>> THEN <<>>
    ELSE LET k == h[1].key
             value == h[1].val
             lines == IF value.type = "list"
                      THEN list_item_lines(k, value.items, 1, comment, delimiter)
                      ELSE <<format_header_line(comment, k, delimiter,
                                                header_value_as_string(value))>>
         IN lines \o reconstruct_header_lines(Tail(h), comment, delimiter)

\* write_header: every reconstructed line is written with a newline
write_header(h, comment, delimiter) ==
    LET lines == reconstruct_header_lines(h, comment, delimiter)
    IN [i \in 1..Len(lines) |-> lines[i] \o <<"\n">>]

-----------------------------------------------------------------------------
(* The streams read *)

HeaderLines ==
    { <<"#", " ", "a", ":", " ", "a", "\n">>,                 \* # a: a
      <<"#", " ", "b", ":", " ", "a", " ", "(", "b", ")", "\n">>,  \* # b: a (b)
      <<"#", " ", "a", "\n">>,                                \* # a
      <<"#", " ", "a", " ", "(", "b", ")", "\n">>,            \* # a (b)
      <<"#", " ", ":", " ", "a", ":", "b", "\n">>,            \* # : a:b
      <<"#", " ", ":", " ", "a", "\n">>,                      \* # : a
      <<"#", " ", ":", " ", "a", " ", "(", "b", ")", "\n">>,  \* # : a (b)
      <<"#", " ", "#", "a", "\n">>,                           \* # #a
      <<"BOM", "#", " ", "b", ":", " ", "a", "\n">>,          \* BOM, # b: a
      <<"a", ",", "b", "\n">> }                               \* a,b

Streams == UNION {[1..n -> HeaderLines] : n \in 1..MaxLines}

-----------------------------------------------------------------------------
(* A Reader over a stream *)

NoDoc == <<>>

\* XCSV.metadata before a read sets it (XCSV.__init__: metadata=None)
NoMetadata == [set |-> FALSE, header |-> <<>>, column_headers |-> <<>>]

\* Reader.data before read_data sets it
NoData == [columns |-> <<>>, rows |-> <<>>]

\* no call made on the document yet
NoCall ==
    [op |-> "none", key |-> None, section |-> "", default |-> NoneValue,
     cast |-> FALSE, exc |-> "none", value |-> NoneValue]

Init ==
    /\ fp \in Streams
    /\ pm \in BOOLEAN
    /\ header = <<>>
    /\ key = None
    /\ pos = 0
    /\ pc = "idle"
    /\ calls = 0
    /\ rets = <<>>
    /\ prev = [header |-> <<>>, key |-> None]
    /\ last = <<>>
    /\ hist = <<>>
    /\ doc = NoDoc
    /\ out = <<>>
    /\ metadata = NoMetadata
    /\ data = NoData
    /\ ret = NoCall

\* read_header is called: key, value = None, None and self.fp.seek(0, 0)
ReadHeaderCall ==
    /\ pc \in {"idle", "returned"}
    /\ calls < MaxCalls
    /\ calls' = calls + 1
    /\ key' = None
    /\ pos' = 0
    /\ pc' = "reading"
    /\ prev' = [header |-> header, key |-> None]
    /\ last' = <<>>
    /\ UNCHANGED <<fp, pm, header, rets, hist, doc, out>>
    /\ UNCHANGED docvars

\* ReadLine passing over a line that is no comment instead of stopping at it
ReadLineSkipsOtherLines ==
    /\ pc = "reading"
    /\ IF pos < Len(fp)
       THEN IF startswith(skip_bom(fp[pos + 1], pos), ReadComment)
            THEN LET line == skip_bom(fp[pos + 1], pos)
                     r == read_line(header, key, line, pm, ReadComment, ReadDelimiter)
                 IN /\ header' = r.header
                    /\ key' = r.key
                    /\ pc' = IF r.exc = "none" THEN "reading" ELSE r.exc
                    /\ prev' = [header |-> header, key |-> key]
                    /\ last' = line
                    /\ rets' = rets
            ELSE UNCHANGED <<header, key, pc, prev, last, rets>>
       ELSE /\ pc' = "returned"
            /\ rets' = Append(rets, header)
            /\ UNCHANGED <<header, key, prev, last>>
    /\ pos' = IF pos < Len(fp) THEN pos + 1 ELSE pos
    /\ UNCHANGED <<fp, pm, calls, hist, doc, out>>
    /\ UNCHANGED docvars

\* one iteration of the for loop of read_header, or its end
ReadLine ==
    /\ pc = "reading"
    /\ IF pos < Len(fp) /\ startswith(skip_bom(fp[pos + 1], pos), ReadComment)
       THEN LET line == skip_bom(fp[pos + 1], pos)
                r == read_line(header, key, line, pm, ReadComment, ReadDelimiter)
            IN /\ header' = r.header
               /\ key' = r.key
               /\ pc' = IF r.exc = "none" THEN "reading" ELSE r.exc
               /\ prev' = [header |-> header, key |-> key]
               /\ last' = line
               /\ rets' = rets
       ELSE /\ pc' = "returned"
            /\ rets' = Append(rets, header)
            /\ UNCHANGED <<header, key, prev, last>>
    /\ pos' = IF pos < Len(fp) THEN pos + 1 ELSE pos
    /\ UNCHANGED <<fp, pm, calls, hist, doc, out>>
    /\ UNCHANGED docvars

\* a Writer is made of the document read and writes its header
WriteAfterRead ==
    /\ pc = "returned"
    /\ pc' = "written"
    /\ doc' = header
    /\ out' = write_header(header, WriteComment, WriteDelimiter)
    /\ UNCHANGED <<fp, pm, header, key, pos, calls, rets, prev, last, hist>>
    /\ UNCHANGED docvars

Next == ReadHeaderCall \/ ReadLine \/ WriteAfterRead

Spec == Init /\ [][Next]_vars

-----------------------------------------------------------------------------
(* What the claims speak of *)

\* the last value a key's item received
LastElem(v) == IF v.type = "list" THEN v.items[Len(v.items)] ELSE v

\* the items of h other than that of key k
Others(h, k) == SelectSeq(h, LAMBDA e : e.key # k)

\* the last iteration called set_header_key_value (with the current key)
Called == last # <<>> /\ pc # "ValueError"

\* the position of the first delimiter of a line that has one
FirstColon(l) == Min({i \in 1..Len(l) : l[i] = ":"})

\* a comment line with a key left of its first delimiter
KeyedForm(l) ==
    /\ startswith(l, <<"#">>)
    /\ ":" \in Chars(l)
    /\ ~(Chars(SubSeq(l, 1, FirstColon(l) - 1)) \subseteq {"#", " "})

\* a comment line with nothing left of its first delimiter
EscapedForm(l) ==
    /\ startswith(l, <<"#">>)
    /\ ":" \in Chars(l)
    /\ Chars(SubSeq(l, 1, FirstColon(l) - 1)) \subseteq {"#", " "}

\* a comment line without a delimiter
SimpleForm(l) == startswith(l, <<"#">>) /\ ":" \notin Chars(l)

\* the text right of the first delimiter
RightOf(l) == SubSeq(l, FirstColon(l) + 1, Len(l))

\* the text of a comment line: the comment prefix and the whitespace
\* around what follows it removed
TextOf(l) == strip(SubSeq(l, Len(ReadComment) + 1, Len(l)))

\* a text as read_header stores it: its tokens when metadata is parsed and
\* it has tokens, the text otherwise
StoredForm(text) ==
    IF pm /\ parse_file_header_tokens(text) # NoneValue
    THEN parse_file_header_tokens(text)
    ELSE Str(text)

\* the last line read added one value to the item of key k
AppendedTo(k) ==
    /\ HasKey(prev.header, k)
    /\ HasKey(header, k)
    /\ Get(header, k).type = "list"
    /\ Len(Get(header, k).items) =
           IF Get(prev.header, k).type = "list"
           THEN Len(Get(prev.header, k).items) + 1 ELSE 2
    /\ Keys(header) = Keys(prev.header)
    /\ Others(header, k) = Others(prev.header, k)

\* the first line of the stream is a comment line without a delimiter
FirstLineHasNoKey ==
    /\ startswith(skip_bom(fp[1], 0), <<"#">>)
    /\ ":" \notin Chars(fp[1])

-----------------------------------------------------------------------------
(* C3: after read_header has returned, no list-valued item of the header   *)
(* holds a {value, units} pair as an element (stated for the streams that  *)
(* begin with a keyed line).                                               *)
C3_ListItemsArePureText ==
    (pc = "returned" /\ KeyedForm(fp[1])) =>
        \A i \in 1..Len(header) :
            header[i].val.type = "list" =>
                \A j \in 1..Len(header[i].val.items) :
                    header[i].val.items[j].type # "dict"

(* C5: when set_header_key_value is called with a {value, units} pair for  *)
(* a key that already holds a value, the call raises TypeError and         *)
(* read_header does not return.                                            *)
C5_PairForExistingKeyRaises ==
    (/\ Called
     /\ HasKey(prev.header, key)
     /\ LastElem(Get(header, key)).type = "dict")
    => (pc = "TypeError" /\ Len(rets) = calls - 1)

\* a pair was set for a key holding a scalar, a pair or a list
C5_Witness ==
    /\ pc = "TypeError"
    /\ HasKey(prev.header, key)
    /\ Get(prev.header, key).type = "list"
    /\ LastElem(Get(header, key)).type = "dict"

(* C8: when the first comment line of the stream has no delimiter,         *)
(* read_header raises ValueError and nothing has been stored.              *)
C8_NoInitialKeyRaises ==
    (calls >= 1 /\ pos >= 1 /\ FirstLineHasNoKey)
    => (pc = "ValueError" /\ header = <<>> /\ rets = <<>>)

C8_Witness == pc = "ValueError" /\ pos = 1 /\ FirstLineHasNoKey /\ Len(fp) > 1

(* C10: a second read_header on the same Reader over the same stream       *)
(* returns a header equal to the first call's, and does not fail (stated   *)
(* for the streams that begin with a keyed line).                          *)
C10_SecondReadEqualsFirst ==
    (calls = 2 /\ pc # "reading" /\ KeyedForm(fp[1]))
    => (pc \in {"returned", "written"} /\ rets[2] = rets[1])


(* C6: a comment line without a delimiter, read while a current key        *)
(* exists, appends its text (the comment prefix and the surrounding        *)
(* whitespace removed, in the form read_header stores a value) as the last *)
(* value of the current key; the current key stays, no key is created and  *)
(* the other items are unchanged.                                          *)
C6_SimpleContinuationAppendsText ==
    (last # <<>> /\ SimpleForm(last) /\ Truthy(prev.key))
    => /\ key = prev.key
       /\ AppendedTo(key)
       /\ LastElem(Get(header, key)) = StoredForm(TextOf(last))

(* C7: with a current key K, the escaped form '# : text' leaves the header *)
(* that the repeated-key form '# K: text' would leave: the whole text      *)
(* right of the first delimiter, trimmed, is appended under K, no other    *)
(* item is created or changed, and the current key remains K.              *)
C7_EscapedEqualsRepeatedKey ==
    (last # <<>> /\ EscapedForm(last) /\ Truthy(prev.key))
    => LET K == prev.key
           repeated == <<"#", " ">> \o K \o <<":">> \o RightOf(last)
           r == read_line(prev.header, K, repeated, pm, ReadComment, ReadDelimiter)
       IN /\ header = r.header
          /\ (pc = "TypeError") = (r.exc = "TypeError")
          /\ pc # "ValueError"
          /\ r.key = K
          /\ key = K
          /\ AppendedTo(K)
          /\ LastElem(Get(header, K)) = StoredForm(strip(RightOf(last)))

\* an escaped line whose text holds a further delimiter was appended
C7_Witness ==
    /\ last # <<>>
    /\ EscapedForm(last)
    /\ Truthy(prev.key)
    /\ ":" \in Chars(RightOf(last))
    /\ pc = "reading"
    /\ LastElem(Get(header, key)) = Str(strip(RightOf(last)))


-----------------------------------------------------------------------------
(* Well-formed files, for C2: header lines as the Writer's defaults lay    *)
(* them out, then the table                                                *)

\* a line that starts with the comment '# ' and ends with a newline
WrittenLine(l) == Len(l) >= 3 /\ startswith(l, WriteComment) /\ l[Len(l)] = "\n"

\* what stands between the comment and the newline
Body(l) == SubSeq(l, Len(WriteComment) + 1, Len(l) - 1)

Trimmed(s) == strip(s) = s

Tokenizes(s) == parse_file_header_tokens(s) # NoneValue

\* a value laid out as the Writer lays out what the Reader makes of it
Canonical(s) ==
    /\ Trimmed(s)
    /\ Tokenizes(s) => reconstruct_file_header_string(parse_file_header_tokens(s)) = s

\* 'key: value'
KeyedLine(l) ==
    /\ WrittenLine(l)
    /\ contains(Body(l), WriteDelimiter)
    /\ LET b == Body(l)
           i == Min(FindAll(b, WriteDelimiter))
           k == SubSeq(b, 1, i - 1)
       IN /\ k # <<>>
          /\ Trimmed(k)
          /\ Chars(k) \cap {"#", ":"} = {}
          /\ Canonical(SubSeq(b, i + Len(WriteDelimiter), Len(b)))

KeyOf(l) == SubSeq(Body(l), 1, Min(FindAll(Body(l), WriteDelimiter)) - 1)

\* ': value', the escape of a continuation that holds the delimiter
EscapedLine(l) ==
    /\ WrittenLine(l)
    /\ startswith(Body(l), WriteDelimiter)
    /\ LET v == SubSeq(Body(l), Len(WriteDelimiter) + 1, Len(Body(l)))
       IN Trimmed(v) /\ ":" \in Chars(v) /\ ~Tokenizes(v)

\* a continuation that holds no delimiter
SimpleLine(l) ==
    /\ WrittenLine(l)
    /\ ":" \notin Chars(Body(l))
    /\ Trimmed(Body(l))
    /\ ~Tokenizes(Body(l))

\* the number of leading comment lines
HeaderLen(f) ==
    Max({n \in 0..Len(f) : \A i \in 1..n : startswith(f[i], ReadComment)})

WellFormed(f) ==
    LET n == HeaderLen(f)
    IN /\ n >= 1
       /\ KeyedLine(f[1])
       /\ \A i \in 1..n : KeyedLine(f[i]) \/ EscapedLine(f[i]) \/ SimpleLine(f[i])
       /\ \A i, j \in 1..n :
            (i < j /\ KeyedLine(f[i]) /\ KeyedLine(f[j])) => KeyOf(f[i]) # KeyOf(f[j])
       /\ \A i \in (n + 1)..Len(f) : "#" \notin Chars(f[i])

(* C2: the header lines that Writer.write emits for the document read from *)
(* a well-formed file are the header lines of the file, in the same order. *)
C2_ReadThenWriteReproducesFile ==
    (pc = "written" /\ calls = 1 /\ pm /\ WellFormed(fp))
    => out = SubSeq(fp, 1, HeaderLen(fp))


-----------------------------------------------------------------------------
(* set_header_key_value called directly on a new Reader *)

SetKeys == { <<"a">>, <<"b">> }

SetValues ==
    { Str(<<"a">>), Str(<<"b">>), Dict(<<"a">>, <<"b">>), Dict(<<"b">>, <<"a">>) }

InitSet ==
    /\ fp = <<>>
    /\ pm = TRUE
    /\ header = <<>>
    /\ key = None
    /\ pos = 0
    /\ pc = "idle"
    /\ calls = 0
    /\ rets = <<>>
    /\ prev = [header |-> <<>>, key |-> None]
    /\ last = <<>>
    /\ hist = <<>>
    /\ doc = NoDoc
    /\ out = <<>>
    /\ metadata = NoMetadata
    /\ data = NoData
    /\ ret = NoCall

SetHeaderKeyValue ==
    /\ pc = "idle"
    /\ Len(hist) < MaxSets
    /\ \E k \in SetKeys, v \in SetValues :
        LET r == set_header_key_value(header, k, v)
        IN /\ header' = r.header
           /\ pc' = IF r.raised THEN "TypeError" ELSE "idle"
           /\ hist' = Append(hist, [key |-> k, val |-> v])
           /\ prev' = [header |-> header, key |-> k]
           /\ ret' = IF r.raised
                     THEN [NoCall EXCEPT
                             !.op = "set_header_key_value", !.key = k,
                             !.exc = "TypeError",
                             !.value = set_header_key_value_note(header, k, v)]
                     ELSE ret
    /\ UNCHANGED <<fp, pm, key, pos, calls, rets, last, doc, out, metadata, data>>

NextSet == SetHeaderKeyValue

SpecSet == InitSet /\ [][NextSet]_vars

\* the values the calls gave key k, in call order
ValuesFor(k) == LET calls_k == SelectSeq(hist, LAMBDA c : c.key = k)
                IN [i \in 1..Len(calls_k) |-> calls_k[i].val]

AllPlain == \A i \in 1..Len(hist) : hist[i].val.type = "str"

(* C4: after calls with plain string values on a fresh Reader, a key that  *)
(* received one value holds that value, a key that received n >= 2 values  *)
(* holds the list of all n in call order, a key that received none is      *)
(* absent, and a call leaves the items of the other keys unchanged.        *)
C4_SetOrAppend ==
    AllPlain =>
        /\ \A k \in SetKeys :
            LET vs == ValuesFor(k)
            IN /\ (Len(vs) = 0) = ~HasKey(header, k)
               /\ Len(vs) = 1 => Get(header, k) = vs[1]
               /\ Len(vs) >= 2 => Get(header, k) = List(vs)
        /\ hist # <<>> => Others(header, prev.key) = Others(prev.header, prev.key)

\* one key holds a list of two values, the other a single value
C4_Witness ==
    /\ AllPlain
    /\ \E k1, k2 \in SetKeys :
        /\ Len(ValuesFor(k1)) = 2
        /\ ValuesFor(k1)[1] # ValuesFor(k1)[2]
        /\ Len(ValuesFor(k2)) = 1

-----------------------------------------------------------------------------
(* A header written by a Writer, then read by a new Reader *)

DocKeys == { <<<<"a">>>>, <<<<"b">>>>, <<<<"a">>, <<"b">>>>, <<<<"b">>, <<"a">>>> }

DocElems ==
    { Str(<<"a">>),
      Str(<<"a", ":", "b">>),
      Str(<<"#", "a">>),
      Str(<<"a", " ", "(", "b", ")">>),
      Dict(<<"a">>, <<"b">>) }

DocValues ==
    DocElems \cup {List(l) : l \in UNION {[1..n -> DocElems] : n \in 2..MaxElems}}

Docs(ks) ==
    {[i \in 1..Len(ks) |-> [key |-> ks[i], val |-> vs[i]]] :
        vs \in [1..Len(ks) -> DocValues]}

InitWR ==
    /\ \E ks \in DocKeys : doc \in Docs(ks)
    /\ fp = <<>>
    /\ pm = TRUE
    /\ header = <<>>
    /\ key = None
    /\ pos = 0
    /\ pc = "new"
    /\ calls = 0
    /\ rets = <<>>
    /\ prev = [header |-> <<>>, key |-> None]
    /\ last = <<>>
    /\ hist = <<>>
    /\ out = <<>>
    /\ metadata = NoMetadata
    /\ data = NoData
    /\ ret = NoCall

\* Writer.write_header with its defaults; the file written is the stream
\* the Reader is then given
WriteHeader ==
    /\ pc = "new"
    /\ out' = write_header(doc, WriteComment, WriteDelimiter)
    /\ fp' = out'
    /\ pc' = "idle"
    /\ UNCHANGED <<pm, header, key, pos, calls, rets, prev, last, hist, doc>>
    /\ UNCHANGED docvars

ReadBack == calls = 0 /\ ReadHeaderCall

NextWR == WriteHeader \/ ReadBack \/ ReadLine

SpecWR == InitWR /\ [][NextWR]_vars

\* the texts of a header value
TextsOf(v) ==
    IF v.type = "list" THEN {v.items[j] : j \in 1..Len(v.items)} ELSE {v}

\* C1's header maps: keys that are trimmed, non-empty and hold neither the
\* delimiter nor the comment character; values that are trimmed plain
\* strings or lists of two or more of them, none with tokens
PlainHeader(h) ==
    \A i \in 1..Len(h) :
        /\ h[i].key # <<>> /\ Trimmed(h[i].key)
        /\ Chars(h[i].key) \cap {"#", ":"} = {}
        /\ h[i].val.type = "list" => Len(h[i].val.items) >= 2
        /\ \A e \in TextsOf(h[i].val) :
            e.type = "str" /\ Trimmed(e.str) /\ ~Tokenizes(e.str)

(* C1: read_header on the lines write_header emits for a header map of     *)
(* plain strings and lists of plain strings returns that header map.       *)
C1_WriteThenReadIsIdentity ==
    (pc \notin {"new", "idle", "reading"} /\ PlainHeader(doc))
    => (pc = "returned" /\ header = doc)

\* the lines C9 describes for one item of the header
RenderedText(v) ==
    IF v.type = "dict" THEN v.value \o <<" ", "(">> \o v.units \o <<")">>
    ELSE v.str

DescribedLine(k, i, v) ==
    IF i = 1 THEN <<"#", " ">> \o k \o <<":", " ">> \o RenderedText(v) \o <<"\n">>
    ELSE IF ":" \in Chars(RenderedText(v))
         THEN <<"#", " ", ":", " ">> \o RenderedText(v) \o <<"\n">>
         ELSE <<"#", " ">> \o RenderedText(v) \o <<"\n">>

DescribedLines(e) ==
    IF e.val.type = "list"
    THEN [i \in 1..Len(e.val.items) |-> DescribedLine(e.key, i, e.val.items[i])]
    ELSE <<DescribedLine(e.key, 1, e.val)>>

RECURSIVE Flatten(_)
Flatten(ls) == IF ls = <<>> THEN <<>> ELSE ls[1] \o Flatten(Tail(ls))

(* C9: the Writer emits, in header order, one keyed line for a scalar or   *)
(* pair; for a list, element 0 as a keyed line and each later element in   *)
(* escaped form if and only if its rendered text holds delimiter.strip(),  *)
(* in simple form otherwise.                                               *)
C9_WriterEscapesConditionally ==
    pc # "new" => out = Flatten([i \in 1..Len(doc) |-> DescribedLines(doc[i])])

\* a header with an escaped and a simple continuation, and a pair
C9_Witness ==
    /\ pc = "idle"
    /\ Len(doc) = 2
    /\ doc[1].val.type = "list"
    /\ doc[2].val.type = "list"
    /\ doc[1].val.items[2] = Str(<<"a", ":", "b">>)
    /\ doc[2].val.items[2] = Dict(<<"a">>, <<"b">>)
    /\ Len(out) = 4

-----------------------------------------------------------------------------
(* Numbers and _get_type_cast_value *)

\* an int or a float: the sign, and the magnitude as num / den with den a
\* power of ten, as small as the decimal text allows (1 for an int)
Number(t, neg, num, den) == [type |-> t, neg |-> neg, num |-> num, den |-> den]

\* a == b of two numbers, whatever their types (999 == 999.0, 0 == -0.0)
NumEq(a, b) == a.num * b.den = b.num * a.den /\ (a.neg = b.neg \/ a.num = 0)

DigitChars == <<"0", "1", "2", "3", "4", "5", "6", "7", "8", "9">>

IsDigit(c) == \E i \in 1..Len(DigitChars) : DigitChars[i] = c

DigitVal(c) == (CHOOSE i \in 1..Len(DigitChars) : DigitChars[i] = c) - 1

AllDigits(s) == \A i \in 1..Len(s) : IsDigit(s[i])

RECURSIVE NatOf(_)
NatOf(s) ==
    IF s = <<>> THEN 0
    ELSE NatOf(SubSeq(s, 1, Len(s) - 1)) * 10 + DigitVal(s[Len(s)])

RECURSIVE Pow10(_)
Pow10(k) == IF k = 0 THEN 1 ELSE 10 * Pow10(k - 1)

\* the literal without surrounding whitespace and without its sign
Unsigned(s) ==
    LET t == strip(s)
    IN IF t # <<>> /\ t[1] \in {"+", "-"} THEN Tail(t) ELSE t

Negative(s) == LET t == strip(s) IN t # <<>> /\ t[1] = "-"

\* int(s) does not raise ValueError.  This and float_parses are right for
\* every str that holds no "_", no exponent and no spelling of inf or nan,
\* which is every str the model casts.
int_parses(s) == Unsigned(s) # <<>> /\ AllDigits(Unsigned(s))

int_of(s) == Number("int", Negative(s), NatOf(Unsigned(s)), 1)

\* the digits before and after the decimal point of an unsigned literal
IntPart(u) == IF contains(u, <<".">>) THEN split(u, <<".">>)[1] ELSE u

FracPart(u) == IF contains(u, <<".">>) THEN split(u, <<".">>)[2] ELSE <<>>

\* float(s) does not raise ValueError
float_parses(s) ==
    LET u == Unsigned(s)
    IN /\ AllDigits(IntPart(u))
       /\ AllDigits(FracPart(u))
       /\ Len(IntPart(u)) + Len(FracPart(u)) >= 1

\* the fraction digits without their trailing zeros
RECURSIVE TrimZeros(_)
TrimZeros(f) ==
    IF f # <<>> /\ f[Len(f)] = "0" THEN TrimZeros(SubSeq(f, 1, Len(f) - 1)) ELSE f

float_of(s) ==
    LET u == Unsigned(s)
        f == TrimZeros(FracPart(u))
    IN Number("float", Negative(s), NatOf(IntPart(u) \o f), Pow10(Len(f)))

\* _get_type_cast_value trying float before int
get_type_cast_value_float_first(v) ==
    IF v.type # "str" THEN v
    ELSE IF float_parses(v.str) THEN float_of(v.str)
    ELSE IF int_parses(v.str) THEN int_of(v.str)
    ELSE v

\* _get_type_cast_value: int(v), else float(v), else v as it is; int and
\* float raise TypeError, which is caught, for a dict, a list or None
get_type_cast_value(v) ==
    IF v.type # "str" THEN v
    ELSE IF int_parses(v.str) THEN int_of(v.str)
    ELSE IF float_parses(v.str) THEN float_of(v.str)
    ELSE v

-----------------------------------------------------------------------------
(* The column header grammar *)

\* the dict of a column header: None for a field that is absent
Triple(n, u, t) == [type |-> "triple", name |-> n, units |-> u, notes |-> t]

Brackets == {"(", ")", "[", "]"}

\* the notes of s[p..] matched as \s+\[(?P<notes>.+)\]$, or None
notes_group(s, p) ==
    LET n == Len(s)
        ks == {k \in (p + 1)..n : s[k] \notin Whitespace}
        k == IF ks = {} THEN 0 ELSE Min(ks)
    IN IF p <= n /\ s[p] \in Whitespace /\ k # 0 /\ s[k] = "[" /\ s[n] = "]"
          /\ n > k + 1
       THEN SubSeq(s, k + 1, n - 1)
       ELSE None

\* the match of the pattern that starts at a and takes its name from the run
\* s[a..b-1] of characters that are no brackets (s[b] is a bracket or b is
\* past the end), or NoneValue.  The greedy name gives back one whitespace
\* character to \s+; the greedy units end at the last ")" after which the
\* rest matches.
match_run(s, a, b) ==
    LET n == Len(s)
    IN IF b = n + 1 THEN Triple(SubSeq(s, a, n), None, None)
       ELSE IF ~(s[b - 1] \in Whitespace /\ b - 1 > a) THEN NoneValue
       ELSE LET name == SubSeq(s, a, b - 2)
            IN IF s[b] = "("
               THEN LET es == {e \in (b + 2)..n :
                                 /\ s[e] = ")"
                                 /\ (e = n \/ notes_group(s, e + 1) # None)}
                    IN IF es = {} THEN NoneValue
                       ELSE LET e == Max(es)
                            IN Triple(name, SubSeq(s, b + 1, e - 1),
                                      IF e = n THEN None ELSE notes_group(s, e + 1))
               ELSE IF s[b] = "[" /\ s[n] = "]" /\ n > b + 1
               THEN Triple(name, None, SubSeq(s, b + 1, n - 1))
               ELSE NoneValue

\* DEFAULTS['column_header_pattern'],
\* r'(?P<name>[^][)(]+)(\s+\((?P<units>.+)\))?(\s+\[(?P<notes>.+)\])?$',
\* searched in a str s that holds no newline: the match of the leftmost run
\* that has one.  The result is the groupdict of the match, or None.
parse_tokens_column_header(s) ==
    LET n == Len(s)
        starts == {a \in 1..n : s[a] \notin Brackets
                                /\ (a = 1 \/ s[a - 1] \in Brackets)}
        EndOf(a) == Min({b \in (a + 1)..(n + 1) : b = n + 1 \/ s[b] \in Brackets})
        good == {a \in starts : match_run(s, a, EndOf(a)) # NoneValue}
    IN IF good = {} THEN NoneValue ELSE match_run(s, Min(good), EndOf(Min(good)))

\* _strip_tokens on the tokens of a column header
strip_column_tokens(tokens) ==
    IF tokens = NoneValue THEN NoneValue
    ELSE [tokens EXCEPT
            !.name = IF @ = None THEN None ELSE strip(@),
            !.units = IF @ = None THEN None ELSE strip(@),
            !.notes = IF @ = None THEN None ELSE strip(@)]

parse_column_header_tokens(s) == strip_column_tokens(parse_tokens_column_header(s))

\* DEFAULTS['column_header_keys'] zipped with
\* DEFAULTS['column_header_templates']
column_header_templates ==
    << [key |-> "name", pre |-> <<>>, post |-> <<>>],
       [key |-> "units", pre |-> <<"(">>, post |-> <<")">>],
       [key |-> "notes", pre |-> <<"[">>, post |-> <<"]">>] >>

reconstruct_column_header_string(d) ==
    reconstruct_header_string(d, column_header_templates, <<" ">>)

\* parse_column_headers: every label is a key, of its tokens (None when it
\* has none) or, without parse_metadata, of {name: label}; the units and
\* notes that this dict lacks are None here, as every reader of them finds
RECURSIVE parse_column_headers(_, _)
parse_column_headers(cols, parse_metadata) ==
    IF cols = <<>> THEN <<>>
    ELSE LET rest == parse_column_headers(SubSeq(cols, 1, Len(cols) - 1),
                                          parse_metadata)
             col == cols[Len(cols)]
         IN IF parse_metadata
            THEN Put(rest, col, parse_column_header_tokens(col))
            ELSE Put(rest, col, Triple(col, None, None))

-----------------------------------------------------------------------------
(* The metadata accessors of XCSV *)

\* what a call gives: the exception it raised ("none" when it returned) and
\* the value it returned
Return(v) == [exc |-> "none", value |-> v]

Raise(e) == [exc |-> e, value |-> NoneValue]

\* the sections that get_metadata_item knows
Sections == {"header", "column_headers"}

\* DEFAULTS['file_header_default_key'], DEFAULTS['column_header_default_key']
SubdictKey(section) ==
    IF section = "header" THEN <<"v", "a", "l", "u", "e">> ELSE <<"n", "a", "m", "e">>

\* get_metadata_item returning None, not the default, for a missing key
get_metadata_item_ignores_default(m, k, section, default) ==
    IF section \notin Sections THEN Raise("KeyError")
    ELSE IF ~m.set THEN Raise("TypeError")
    ELSE IF HasKey(m[section], k) THEN Return(Get(m[section], k))
    ELSE Return(NoneValue)

\* XCSV.get_metadata_item
get_metadata_item(m, k, section, default) ==
    IF section \notin Sections THEN Raise("KeyError")
    ELSE IF ~m.set THEN Raise("TypeError")
    ELSE IF HasKey(m[section], k) THEN Return(Get(m[section], k))
    ELSE Return(default)

\* XCSV.recombine_list_header_string: '\n'.join(l), which raises TypeError
\* when an element of l is not a str
recombine_list_header_string(l) ==
    IF \A i \in 1..Len(l) : l[i].type = "str"
    THEN Return(Str(JoinSeq([i \in 1..Len(l) |-> l[i].str], <<"\n">>)))
    ELSE Raise("TypeError")

\* XCSV.get_metadata_item_string
get_metadata_item_string(m, k, section, default) ==
    IF section \notin Sections THEN Raise("KeyError")
    ELSE IF ~m.set THEN Raise("TypeError")
    ELSE IF ~HasKey(m[section], k) THEN Return(default)
    ELSE LET value == Get(m[section], k)
         IN IF value.type = "dict"
            THEN Return(Str(reconstruct_file_header_string(value)))
            ELSE IF value.type = "triple"
            THEN Return(Str(reconstruct_column_header_string(value)))
            ELSE IF value.type = "list"
            THEN recombine_list_header_string(value.items)
            ELSE Return(value)

\* subdict_key in value: a key of a dict, a substring of a str, an element
\* of a list
subdict_key_in(sk, value) ==
    IF value.type = "dict" THEN sk = SubdictKey("header")
    ELSE IF value.type = "triple" THEN sk = SubdictKey("column_headers")
    ELSE IF value.type = "str" THEN contains(value.str, sk)
    ELSE \E i \in 1..Len(value.items) : value.items[i] = Str(sk)

\* simple_value casting the value of a plain str only
simple_value_casts_str_only(value, sk, cast) ==
    IF value.type = "None" THEN Raise("TypeError")
    ELSE IF subdict_key_in(sk, value) /\ value.type \in {"str", "list"}
    THEN Raise("TypeError")
    ELSE LET v1 == IF subdict_key_in(sk, value)
                   THEN Str(IF value.type = "dict" THEN value.value ELSE value.name)
                   ELSE value
             r2 == IF v1.type = "list" THEN recombine_list_header_string(v1.items)
                   ELSE Return(v1)
         IN IF r2.exc # "none" THEN r2
            ELSE IF cast /\ value.type = "str" THEN Return(get_type_cast_value(r2.value))
            ELSE r2

\* the simple value and the cast of get_metadata_item_value, for the value
\* stored under an existing key
simple_value(value, sk, cast) ==
    IF value.type = "None" THEN Raise("TypeError")      \* in on None
    ELSE IF subdict_key_in(sk, value) /\ value.type \in {"str", "list"}
    THEN Raise("TypeError")                             \* str or list [sk]
    ELSE LET v1 == IF subdict_key_in(sk, value)
                   THEN Str(IF value.type = "dict" THEN value.value ELSE value.name)
                   ELSE value
             r2 == IF v1.type = "list" THEN recombine_list_header_string(v1.items)
                   ELSE Return(v1)
         IN IF r2.exc # "none" THEN r2
            ELSE IF cast THEN Return(get_type_cast_value(r2.value))
            ELSE r2

\* XCSV.get_metadata_item_value
get_metadata_item_value(m, k, section, default, cast) ==
    IF section \notin Sections THEN Raise("KeyError")
    ELSE IF ~m.set THEN Raise("TypeError")
    ELSE IF ~HasKey(m[section], k) THEN Return(default)
    ELSE simple_value(Get(m[section], k), SubdictKey(section), cast)

\* f"[{notes_id}]"
notes_header_key(notes_id) == <<"[">> \o notes_id \o <<"]">>

\* XCSV.get_notes_for_column_header
get_notes_for_column_header(m, k, default) ==
    LET column_header == get_metadata_item(m, k, "column_headers", NoneValue)
    IN IF column_header.exc # "none" THEN column_header
       ELSE IF column_header.value = NoneValue THEN Return(default)
       ELSE IF column_header.value.notes = None THEN Return(default)
       ELSE get_metadata_item_string(m, notes_header_key(column_header.value.notes),
                                     "header", NoneValue)

-----------------------------------------------------------------------------
(* Reader.mask_missing_values *)

\* a cell that holds no value (NaN)
NaN == [type |-> "nan"]

\* DEFAULTS['missing_value_key']
MissingValueKey ==
    <<"m", "i", "s", "s", "i", "n", "g", "_", "v", "a", "l", "u", "e">>

IsNumber(v) == v.type \in {"int", "float"}

IsScalar(v) == v.type \in {"int", "float", "str"}

\* cell == other for a scalar other: numbers compare by value, strs by
\* their characters; NaN and values of different kinds are never equal
cell_eq(cell, other) ==
    IF IsNumber(cell) /\ IsNumber(other) THEN NumEq(cell, other)
    ELSE cell.type = "str" /\ other.type = "str" /\ cell.str = other.str

\* Reader._get_type_cast_missing_value: None without the key
get_type_cast_missing_value(h) ==
    IF HasKey(h, MissingValueKey) THEN get_type_cast_value(Get(h, MissingValueKey))
    ELSE NoneValue

\* self.data == missing_value, the DataFrame comparison: a scalar is
\* compared with every cell; a list or a dict is made a Series over the
\* columns, which raises ValueError unless it has one element per column,
\* and column j is compared with element j (of a dict: with the element
\* whose key is the column's label, NaN when there is none)
operand_of_column(d, other, j) ==
    IF IsScalar(other) THEN other
    ELSE IF other.type = "list" THEN other.items[j]
    ELSE IF d.columns[j] = SubdictKey("header") THEN Str(other.value)
    ELSE IF d.columns[j] = <<"u", "n", "i", "t", "s">> THEN Str(other.units)
    ELSE NaN

operand_len(other) == IF other.type = "list" THEN Len(other.items) ELSE 2

\* mask_missing_values comparing the cells of the first column only
mask_missing_values_first_column(h, d) ==
    LET missing_value == get_type_cast_missing_value(h)
    IN IF missing_value = NoneValue THEN [exc |-> "none", data |-> d]
       ELSE IF ~IsScalar(missing_value) /\ operand_len(missing_value) # Len(d.columns)
       THEN [exc |-> "ValueError", data |-> d]
       ELSE [exc |-> "none",
             data |-> [d EXCEPT !.rows =
                 [r \in 1..Len(d.rows) |->
                     [j \in 1..Len(d.columns) |->
                         IF j = 1 /\ cell_eq(d.rows[r][j],
                                             operand_of_column(d, missing_value, j))
                         THEN NaN ELSE d.rows[r][j]]]]]

\* Reader.mask_missing_values: the exception raised and the table left
mask_missing_values(h, d) ==
    LET missing_value == get_type_cast_missing_value(h)
    IN IF missing_value = NoneValue THEN [exc |-> "none", data |-> d]
       ELSE IF ~IsScalar(missing_value) /\ operand_len(missing_value) # Len(d.columns)
       THEN [exc |-> "ValueError", data |-> d]
       ELSE [exc |-> "none",
             data |-> [d EXCEPT !.rows =
                 [r \in 1..Len(d.rows) |->
                     [j \in 1..Len(d.columns) |->
                         IF cell_eq(d.rows[r][j], operand_of_column(d, missing_value, j))
                         THEN NaN ELSE d.rows[r][j]]]]]

-----------------------------------------------------------------------------
(* The column maps and the renaming of the columns *)

\* the entries of the column headers that are no dict (None)
HasNoneEntry(ch) == \E i \in 1..Len(ch) : ch[i].val = NoneValue

\* the loop of get_column_header_name_map: col_map[label] = name
RECURSIVE name_map_of(_)
name_map_of(ch) ==
    IF ch = <<>> THEN <<>>
    ELSE Put(name_map_of(SubSeq(ch, 1, Len(ch) - 1)),
             ch[Len(ch)].key, ch[Len(ch)].val.name)

\* the loop of get_column_header_label_map: col_map[name] = label, where a
\* name set again keeps its place and takes the later label
RECURSIVE label_map_of(_)
label_map_of(ch) ==
    IF ch = <<>> THEN <<>>
    ELSE Put(label_map_of(SubSeq(ch, 1, Len(ch) - 1)),
             ch[Len(ch)].val.name, ch[Len(ch)].key)

\* XCSV.get_column_header_name_map: raises TypeError for metadata that is
\* not set and for an entry that is None
get_column_header_name_map(m) ==
    IF ~m.set \/ HasNoneEntry(m.column_headers) THEN Raise("TypeError")
    ELSE Return(name_map_of(m.column_headers))

\* get_column_header_label_map keyed by the labels, as the name map is
get_column_header_label_map_by_label(m) ==
    IF ~m.set \/ HasNoneEntry(m.column_headers) THEN Raise("TypeError")
    ELSE Return(name_map_of(m.column_headers))

\* XCSV.get_column_header_label_map
get_column_header_label_map(m) ==
    IF ~m.set \/ HasNoneEntry(m.column_headers) THEN Raise("TypeError")
    ELSE Return(label_map_of(m.column_headers))

\* DataFrame.rename(columns=col_map): a column that is a key of the map
\* takes its value, any other column keeps its label
rename(columns, col_map) ==
    [i \in 1..Len(columns) |->
        IF HasKey(col_map, columns[i]) THEN Get(col_map, columns[i]) ELSE columns[i]]

-----------------------------------------------------------------------------
(* A file read by Reader.read, and the accessors called on its document *)

MaxItemLines == 2   \* header lines of a file whose document is accessed

\* s.split(d)
RECURSIVE SplitAll(_, _)
SplitAll(s, d) ==
    IF ~contains(s, d) THEN <<s>>
    ELSE <<split(s, d)[1]>> \o SplitAll(split(s, d)[2], d)

\* the header row of a table with the column labels cols
csv_line(cols) == JoinSeq(cols, <<",">>) \o <<"\n">>

\* pd.read_csv(fp, comment='#').columns: the fields of the first line that
\* is no comment, which here are neither quoted, empty nor repeated
read_csv_columns(f) ==
    LET table == SelectSeq(f, LAMBDA l : ~startswith(l, ReadComment))
    IN SplitAll(SubSeq(table[1], 1, Len(table[1]) - 1), <<",">>)

\* header lines: an integer, a value with units, a text that holds the
\* word value, a footnote, a text continuation and an empty continuation
ItemLines ==
    { <<"#", " ", "a", ":", " ", "1", "\n">>,                          \* # a: 1
      <<"#", " ", "a", ":", " ", "1", ".", "5", " ", "(", "b", ")", "\n">>,  \* # a: 1.5 (b)
      <<"#", " ", "a", ":", " ", "v", "a", "l", "u", "e", "\n">>,      \* # a: value
      <<"#", " ", "[", "n", "]", ":", " ", "a", "\n">>,                \* # [n]: a
      <<"#", " ", "b", "\n">>,                                         \* # b
      <<"#", "\n">> }                                                  \* #

ItemStreams == UNION {[1..n -> ItemLines] : n \in 1..MaxItemLines}

\* the column labels of the files: a name with notes, a name after a space,
\* a label the pattern does not match, and a name with units
ColumnLists ==
    { << <<"a", " ", "[", "n", "]">> >>,
      << <<" ", "a">> >>,
      << <<"a", ")">> >>,
      << <<"a", " ", "(", "b", ")">>, <<"b">> >> }

\* a Reader over a file, or an XCSV object made without metadata
InitDoc ==
    /\ \/ /\ \E f \in ItemStreams, cols \in ColumnLists : fp = f \o <<csv_line(cols)>>
          /\ pm \in BOOLEAN
          /\ pc = "idle"
       \/ fp = <<>> /\ pm = TRUE /\ pc = "made"
    /\ header = <<>>
    /\ key = None
    /\ pos = 0
    /\ calls = 0
    /\ rets = <<>>
    /\ prev = [header |-> <<>>, key |-> None]
    /\ last = <<>>
    /\ hist = <<>>
    /\ doc = NoDoc
    /\ out = <<>>
    /\ metadata = NoMetadata
    /\ data = NoData
    /\ ret = NoCall

\* the rest of Reader.read after read_header returned: read_data, then
\* post_process_data when parse_metadata, then the XCSV object is made.
\* The files here have no data rows.
ReadData ==
    /\ pc = "returned"
    /\ LET d == [columns |-> read_csv_columns(fp), rows |-> <<>>]
           masked == IF pm THEN mask_missing_values(header, d)
                     ELSE [exc |-> "none", data |-> d]
       IN /\ data' = masked.data
          /\ IF masked.exc = "none"
             THEN /\ pc' = "read"
                  /\ metadata' = [set |-> TRUE, header |-> header,
                                  column_headers |-> parse_column_headers(d.columns, pm)]
             ELSE /\ pc' = masked.exc
                  /\ metadata' = metadata
    /\ UNCHANGED <<fp, pm, header, key, pos, calls, rets, prev, last, hist, doc, out, ret>>

\* the keys, sections and defaults the accessors are called with
CallKeys ==
    {metadata.header[i].key : i \in 1..Len(metadata.header)}
    \cup {metadata.column_headers[i].key : i \in 1..Len(metadata.column_headers)}
    \cup {<<"z">>}

CallSections == Sections \cup {"data"}

Defaults == {NoneValue, Str(<<"d">>)}

Call(op, k, section, default, cast, r) ==
    [op |-> op, key |-> k, section |-> section, default |-> default,
     cast |-> cast, exc |-> r.exc, value |-> r.value]

\* the document is there and no accessor was called on it yet: an accessor
\* changes nothing, so that a later call returns what it returns as the first
Accessible == pc \in {"read", "made"} /\ ret.op = "none"

GetMetadataItem ==
    /\ Accessible
    /\ \E k \in CallKeys, section \in CallSections, default \in Defaults :
        ret' = Call("get_metadata_item", k, section, default, FALSE,
                    get_metadata_item(metadata, k, section, default))
    /\ UNCHANGED <<fp, pm, header, key, pos, pc, calls, rets, prev, last, hist,
                   doc, out, metadata, data>>

GetMetadataItemString ==
    /\ Accessible
    /\ \E k \in CallKeys, section \in CallSections, default \in Defaults :
        ret' = Call("get_metadata_item_string", k, section, default, FALSE,
                    get_metadata_item_string(metadata, k, section, default))
    /\ UNCHANGED <<fp, pm, header, key, pos, pc, calls, rets, prev, last, hist,
                   doc, out, metadata, data>>

GetMetadataItemValue ==
    /\ Accessible
    /\ \E k \in CallKeys, section \in CallSections, default \in Defaults,
          cast \in BOOLEAN :
        ret' = Call("get_metadata_item_value", k, section, default, cast,
                    get_metadata_item_value(metadata, k, section, default, cast))
    /\ UNCHANGED <<fp, pm, header, key, pos, pc, calls, rets, prev, last, hist,
                   doc, out, metadata, data>>

GetNotesForColumnHeader ==
    /\ Accessible
    /\ \E k \in CallKeys, default \in Defaults :
        ret' = Call("get_notes_for_column_header", k, "column_headers", default,
                    FALSE, get_notes_for_column_header(metadata, k, default))
    /\ UNCHANGED <<fp, pm, header, key, pos, pc, calls, rets, prev, last, hist,
                   doc, out, metadata, data>>

NextDoc ==
    \/ ReadBack
    \/ ReadLine
    \/ ReadData
    \/ GetMetadataItem
    \/ GetMetadataItemString
    \/ GetMetadataItemValue
    \/ GetNotesForColumnHeader

SpecDoc == InitDoc /\ [][NextDoc]_vars

-----------------------------------------------------------------------------
(* What the claims say of the accessors *)

\* the call made was op, on a document whose metadata is set, for a key
\* that is in the section it named
OnItem(op) ==
    /\ ret.op = op
    /\ metadata.set
    /\ ret.section \in Sections
    /\ HasKey(metadata[ret.section], ret.key)

\* the item the call asked for
Item == Get(metadata[ret.section], ret.key)

IsTextList(v) ==
    v.type = "list" /\ \A i \in 1..Len(v.items) : v.items[i].type = "str"

\* the kinds of item C11 and C16 name
Described(v) == v.type \in {"dict", "triple", "str"} \/ IsTextList(v)

\* the simple value of an item as C11 states it
SimpleText(v) ==
    IF v.type = "dict" THEN v.value
    ELSE IF v.type = "triple" THEN v.name
    ELSE IF v.type = "list" THEN JoinSeq([i \in 1..Len(v.items) |-> v.items[i].str], <<"\n">>)
    ELSE v.str

(* C11: get_metadata_item_value with cast=False, for an existing key of a  *)
(* valid section whose item is a pair, a triple, a list of strings or a    *)
(* plain string, does not raise and returns the item's simple value: the   *)
(* value field, the name field, the newline-joined text, the string itself.*)
C11_SimpleValueOfEveryItem ==
    (OnItem("get_metadata_item_value") /\ ~ret.cast /\ Described(Item))
    => (ret.exc = "none" /\ ret.value = Str(SimpleText(Item)))

\* the int, else the float, else the str that a text is cast to
CastOf(t) ==
    IF int_parses(t) THEN int_of(t)
    ELSE IF float_parses(t) THEN float_of(t)
    ELSE Str(t)

(* C12: get_metadata_item_value with cast=True that returns the value of   *)
(* an item returns its simple value as an int when it parses as an int,    *)
(* otherwise as a float when it parses as a float, otherwise the string    *)
(* unchanged, for the value field of a pair as for a plain string.         *)
C12_CastIsIntThenFloatThenString ==
    (OnItem("get_metadata_item_value") /\ ret.cast /\ ret.exc = "none"
     /\ Described(Item))
    => /\ ret.value = CastOf(SimpleText(Item))
       /\ (ret.value.type = "int") = int_parses(SimpleText(Item))
       /\ (ret.value.type = "float")
            = (~int_parses(SimpleText(Item)) /\ float_parses(SimpleText(Item)))

\* a plain string was cast to an int
C12_Witness ==
    /\ OnItem("get_metadata_item_value") /\ ret.cast /\ ret.exc = "none"
    /\ Item.type = "str"
    /\ ret.value.type = "int"

\* what the same call returns or raises with cast=False
Uncast ==
    get_metadata_item_value(metadata, ret.key, ret.section, ret.default, FALSE)

(* C13 as stated: for an item that is a pair or a list,                    *)
(* get_metadata_item_value with cast=True gives what it gives with         *)
(* cast=False.                                                             *)
C13_CastLeavesPairsAndLists ==
    (OnItem("get_metadata_item_value") /\ ret.cast /\ Item.type \in {"dict", "list"})
    => (ret.exc = Uncast.exc /\ ret.value = Uncast.value)

(* C13 amended: for an item that is a pair or a list, the call with        *)
(* cast=True raises what the call with cast=False raises, and otherwise    *)
(* returns the cast of the text the call with cast=False returns (the      *)
(* value field of the pair, the joined text of the list): it differs from  *)
(* that text exactly when the text parses as an int or a float.            *)
C13_CastAppliesToPairsAndLists ==
    (OnItem("get_metadata_item_value") /\ ret.cast /\ Item.type \in {"dict", "list"})
    => /\ ret.exc = Uncast.exc
       /\ Uncast.exc = "none" =>
            /\ ret.value = CastOf(Uncast.value.str)
            /\ (ret.value # Uncast.value)
                 = (int_parses(Uncast.value.str) \/ float_parses(Uncast.value.str))

\* the value field of a pair was cast to a float
C13_Witness ==
    /\ OnItem("get_metadata_item_value") /\ ret.cast /\ ret.exc = "none"
    /\ Item.type = "dict"
    /\ ret.value.type = "float"

\* the text of a header item: a pair as value (units), a list of strings
\* joined by newlines, a string as itself
TextOfItem(v) ==
    IF v.type = "dict" THEN v.value \o <<" ", "(">> \o v.units \o <<")">>
    ELSE IF v.type = "list"
    THEN JoinSeq([i \in 1..Len(v.items) |-> v.items[i].str], <<"\n">>)
    ELSE v.str

\* the column the call named is in the column headers and has tokens
ColumnFound ==
    /\ HasKey(metadata.column_headers, ret.key)
    /\ Get(metadata.column_headers, ret.key).type = "triple"

\* the header key of the notes of the column the call named
NotesKey == notes_header_key(Get(metadata.column_headers, ret.key).notes)

(* C14: get_notes_for_column_header(label, default) returns the text of    *)
(* the header item under "[<notes>]" when the column exists, has notes and *)
(* that key is in the header; in every other case it returns default.      *)
C14_NotesOrDefault ==
    (ret.op = "get_notes_for_column_header" /\ metadata.set)
    => IF /\ ColumnFound
          /\ Get(metadata.column_headers, ret.key).notes # None
          /\ HasKey(metadata.header, NotesKey)
       THEN Described(Get(metadata.header, NotesKey))
            => (ret.exc = "none"
                /\ ret.value = Str(TextOfItem(Get(metadata.header, NotesKey))))
       ELSE ret.exc = "none" /\ ret.value = ret.default

(* C15: an accessor called with a section other than header and            *)
(* column_headers raises KeyError, whatever the key; otherwise             *)
(* get_metadata_item raises TypeError when the metadata is not set, and    *)
(* otherwise returns the stored value of a key that is in the section and  *)
(* the caller's default for a key that is not.                             *)
C15_GetMetadataItemOutcome ==
    /\ (ret.op \in {"get_metadata_item", "get_metadata_item_string",
                    "get_metadata_item_value"} /\ ret.section \notin Sections)
       => ret.exc = "KeyError"
    /\ (ret.op = "get_metadata_item" /\ ret.section \in Sections)
       => IF ~metadata.set THEN ret.exc = "TypeError"
          ELSE /\ ret.exc = "none"
               /\ ret.value = IF HasKey(metadata[ret.section], ret.key)
                              THEN Get(metadata[ret.section], ret.key)
                              ELSE ret.default

\* a missing key gave a default that is not None
C15_Witness ==
    /\ ret.op = "get_metadata_item" /\ metadata.set /\ ret.section \in Sections
    /\ ~HasKey(metadata[ret.section], ret.key)
    /\ ret.default # NoneValue
    /\ ret.value = ret.default

(* C16: on the document of a successful read, get_metadata_item_string     *)
(* for an existing key whose item is a pair, a triple, a list of strings   *)
(* or a string returns text: of a header pair its reconstruction,          *)
(* of a column triple its reconstruction, of a list its elements joined by *)
(* newline, of a string itself; for a column_headers key the text is the   *)
(* column label.                                                           *)
C16_EveryItemRendersAsText ==
    (pc = "read" /\ OnItem("get_metadata_item_string") /\ Described(Item))
    => /\ ret.exc = "none"
       /\ ret.value.type = "str"
       /\ ret.section = "header" => ret.value.str = TextOfItem(Item)
       /\ ret.section = "column_headers" => ret.value.str = ret.key

-----------------------------------------------------------------------------
(* The column headers of a table: parsed, mapped, and the columns renamed *)

MaxCols == 2        \* columns of a table

\* column labels: a name, a name with units, one with notes, another name,
\* a label the pattern does not match, and a label with a leading space
ColumnLabels ==
    { <<"a">>,
      <<"a", " ", "(", "b", ")">>,
      <<"a", " ", "[", "n", "]">>,
      <<"b">>,
      <<"a", ")">>,
      <<" ", "b">> }

\* the header rows of the tables: labels that differ from one another, as
\* the columns of a DataFrame read from a file do
ColumnRows ==
    {cols \in UNION {[1..n -> ColumnLabels] : n \in 1..MaxCols} :
        \A i, j \in 1..Len(cols) : i # j => cols[i] # cols[j]}

InitCols ==
    /\ \E cols \in ColumnRows : fp = <<csv_line(cols)>>
    /\ pm \in BOOLEAN
    /\ pc = "file"
    /\ header = <<>>
    /\ key = None
    /\ pos = 0
    /\ calls = 0
    /\ rets = <<>>
    /\ prev = [header |-> <<>>, key |-> None]
    /\ last = <<>>
    /\ hist = <<>>
    /\ doc = NoDoc
    /\ out = <<>>
    /\ metadata = NoMetadata
    /\ data = NoData
    /\ ret = NoCall

\* Reader.read_data, and the XCSV object made of what it read
ReadColumns ==
    /\ pc = "file"
    /\ pc' = "doc"
    /\ data' = [columns |-> read_csv_columns(fp), rows |-> <<>>]
    /\ metadata' = [set |-> TRUE, header |-> <<>>,
                    column_headers |-> parse_column_headers(read_csv_columns(fp), pm)]
    /\ UNCHANGED <<fp, pm, header, key, pos, calls, rets, prev, last, hist, doc, out, ret>>

\* XCSV(metadata={'column_headers': {}}, data=...): a document made of the
\* table with an empty column-header map
MakeWithoutColumnHeaders ==
    /\ pc = "file"
    /\ pc' = "doc"
    /\ data' = [columns |-> read_csv_columns(fp), rows |-> <<>>]
    /\ metadata' = [set |-> TRUE, header |-> <<>>, column_headers |-> <<>>]
    /\ UNCHANGED <<fp, pm, header, key, pos, calls, rets, prev, last, hist, doc, out, ret>>

GetColumnHeaderNameMap ==
    /\ pc = "doc" /\ ret.op = "none"
    /\ ret' = Call("get_column_header_name_map", None, "column_headers", NoneValue,
                   FALSE, get_column_header_name_map(metadata))
    /\ UNCHANGED <<fp, pm, header, key, pos, pc, calls, rets, prev, last, hist,
                   doc, out, metadata, data>>

GetColumnHeaderLabelMap ==
    /\ pc = "doc" /\ ret.op = "none"
    /\ ret' = Call("get_column_header_label_map", None, "column_headers", NoneValue,
                   FALSE, get_column_header_label_map(metadata))
    /\ UNCHANGED <<fp, pm, header, key, pos, pc, calls, rets, prev, last, hist,
                   doc, out, metadata, data>>

\* XCSV.rename_column_headers_as_names; pc tells the renames made so far
RenameColumnHeadersAsNames ==
    /\ pc \in {"doc", "labels"}
    /\ LET col_map == get_column_header_name_map(metadata)
       IN IF col_map.exc = "none"
          THEN /\ data' = [data EXCEPT !.columns = rename(data.columns, col_map.value)]
               /\ pc' = IF pc = "doc" THEN "names" ELSE "labels_names"
          ELSE /\ data' = data
               /\ pc' = col_map.exc
    /\ UNCHANGED <<fp, pm, header, key, pos, calls, rets, prev, last, hist, doc, out,
                   metadata, ret>>

\* XCSV.rename_column_headers_as_labels
RenameColumnHeadersAsLabels ==
    /\ pc \in {"doc", "names"}
    /\ LET col_map == get_column_header_label_map(metadata)
       IN IF col_map.exc = "none"
          THEN /\ data' = [data EXCEPT !.columns = rename(data.columns, col_map.value)]
               /\ pc' = IF pc = "doc" THEN "labels" ELSE "names_labels"
          ELSE /\ data' = data
               /\ pc' = col_map.exc
    /\ UNCHANGED <<fp, pm, header, key, pos, calls, rets, prev, last, hist, doc, out,
                   metadata, ret>>

NextCols ==
    \/ ReadColumns
    \/ MakeWithoutColumnHeaders
    \/ GetColumnHeaderNameMap
    \/ GetColumnHeaderLabelMap
    \/ RenameColumnHeadersAsNames
    \/ RenameColumnHeadersAsLabels

SpecCols == InitCols /\ [][NextCols]_vars

\* the column labels of the file
FileColumns == read_csv_columns(fp)

\* the document was made by read_data, not with an empty map
Parsed == metadata.set /\ metadata.column_headers # <<>>

(* C17: parse_column_headers maps every label, verbatim and in order, to a *)
(* record whose name is present and not None (the label itself without     *)
(* parse_metadata), and get_column_header_name_map and                     *)
(* get_column_header_label_map succeed on the map.                         *)
C17_EveryEntryHasAName ==
    Parsed =>
        /\ Keys(metadata.column_headers) = FileColumns
        /\ \A i \in 1..Len(metadata.column_headers) :
            LET e == metadata.column_headers[i]
            IN /\ e.val.type = "triple"
               /\ e.val.name # None
               /\ ~pm => e.val.name = e.key
        /\ ret.op \in {"get_column_header_name_map", "get_column_header_label_map"}
           => ret.exc = "none"

\* every entry has tokens, and no two entries have the same name
DistinctNames ==
    /\ ~HasNoneEntry(metadata.column_headers)
    /\ \A i, j \in 1..Len(metadata.column_headers) :
        i # j => metadata.column_headers[i].val.name # metadata.column_headers[j].val.name

(* C20: on a document whose columns are the labels of its column-header    *)
(* map, with pairwise distinct names, rename_column_headers_as_names then  *)
(* rename_column_headers_as_labels leaves the original labels in the       *)
(* original order; with an empty map either rename leaves the columns as   *)
(* they are.                                                               *)
C20_RenameRoundTrip ==
    /\ (Parsed /\ DistinctNames /\ pc = "names_labels") => data.columns = FileColumns
    /\ (Parsed /\ DistinctNames /\ pc = "names")
       => data.columns = [i \in 1..Len(FileColumns) |->
                             Get(metadata.column_headers, FileColumns[i]).name]
    /\ (metadata.set /\ metadata.column_headers = <<>>
        /\ pc \in {"names", "labels", "names_labels", "labels_names"})
       => data.columns = FileColumns

\* two columns, one of them renamed to a name that is not its label, are
\* back at their labels
C20_Witness ==
    /\ Parsed /\ DistinctNames /\ pc = "names_labels"
    /\ Len(FileColumns) = 2
    /\ \E i \in 1..2 : Get(metadata.column_headers, FileColumns[i]).name # FileColumns[i]
    /\ data.columns = FileColumns

-----------------------------------------------------------------------------
(* A Reader with a header and a table, whose missing values are masked *)

MaxRows == 1        \* rows of a table

\* the cells of the tables: 999, 999.99, 'x' and a cell without value
Cells ==
    { Number("int", FALSE, 999, 1),
      Number("float", FALSE, 99999, 100),
      Str(<<"x">>),
      NaN }

\* the labels of a table of n columns: c1, c2, ...
MaskColumns(n) == [j \in 1..n |-> <<"c", DigitChars[j + 1]>>]

Tables ==
    UNION { UNION { {[columns |-> MaskColumns(n), rows |-> rows] :
                        rows \in [1..r -> [1..n -> Cells]]} :
                    r \in 1..MaxRows } :
            n \in 1..MaxCols }

\* the missing_value items: 999, 999.99, 999.0, x, a value with units and
\* a list
MissingValues ==
    { Str(<<"9", "9", "9">>),
      Str(<<"9", "9", "9", ".", "9", "9">>),
      Str(<<"9", "9", "9", ".", "0">>),
      Str(<<"x">>),
      Dict(<<"9", "9", "9">>, <<"m">>),
      List(<<Str(<<"9", "9", "9">>), Str(<<"x">>)>>) }

\* the headers: without the missing_value key, or with one of the items
MaskHeaders ==
    { << >> } \cup { <<[key |-> MissingValueKey, val |-> v]>> : v \in MissingValues }

InitMask ==
    /\ header \in MaskHeaders
    /\ data \in Tables
    /\ pc = "loaded"
    /\ fp = <<>>
    /\ pm = TRUE
    /\ key = None
    /\ pos = 0
    /\ calls = 0
    /\ rets = <<>>
    /\ prev = [header |-> <<>>, key |-> None]
    /\ last = <<>>
    /\ hist = <<>>
    /\ doc = NoDoc
    /\ out = <<>>
    /\ metadata = NoMetadata
    /\ ret = NoCall

\* Reader.mask_missing_values; ret keeps the table as it was before the call
MaskMissingValues ==
    /\ pc = "loaded"
    /\ LET r == mask_missing_values(header, data)
       IN /\ data' = r.data
          /\ pc' = IF r.exc = "none" THEN "masked" ELSE r.exc
          /\ ret' = [NoCall EXCEPT !.op = "mask_missing_values", !.exc = r.exc,
                                   !.value = data]
    /\ UNCHANGED <<fp, pm, header, key, pos, calls, rets, prev, last, hist, doc, out,
                   metadata>>

NextMask == MaskMissingValues

SpecMask == InitMask /\ [][NextMask]_vars

\* the table before mask_missing_values was called
Before == ret.value

\* a cell's value equals the sentinel: two numbers of the same value, or
\* two strings of the same characters
EqualsSentinel(cell, sentinel) ==
    \/ cell.type \in {"int", "float"} /\ sentinel.type \in {"int", "float"}
       /\ NumEq(cell, sentinel)
    \/ cell.type = "str" /\ sentinel.type = "str" /\ cell.str = sentinel.str

\* the header has a missing_value item that is a plain string
ScalarSentinel ==
    HasKey(header, MissingValueKey) /\ Get(header, MissingValueKey).type = "str"

(* C18: after mask_missing_values with a scalar sentinel (the header's     *)
(* missing_value cast to an int, else a float, else left a string), a cell *)
(* of any column is absent if and only if it was absent before or its      *)
(* value equalled the sentinel, every other cell keeps its value, and      *)
(* without a missing_value key the table is unchanged.                     *)
C18_MaskIsTableWideAndExact ==
    ret.op = "mask_missing_values" =>
        /\ ~HasKey(header, MissingValueKey) => (ret.exc = "none" /\ data = Before)
        /\ ScalarSentinel =>
            LET sentinel == CastOf(Get(header, MissingValueKey).str)
            IN /\ ret.exc = "none"
               /\ data.columns = Before.columns
               /\ Len(data.rows) = Len(Before.rows)
               /\ \A r \in 1..Len(Before.rows) : \A j \in 1..Len(Before.columns) :
                    /\ (data.rows[r][j] = NaN)
                         = (Before.rows[r][j] = NaN
                            \/ EqualsSentinel(Before.rows[r][j], sentinel))
                    /\ data.rows[r][j] # NaN => data.rows[r][j] = Before.rows[r][j]

\* the int sentinel 999 masked a 999 in the second column and left a 999.99
\* in the first
C18_Witness ==
    /\ ret.op = "mask_missing_values" /\ ScalarSentinel
    /\ CastOf(Get(header, MissingValueKey).str) = Number("int", FALSE, 999, 1)
    /\ Len(data.columns) >= 2
    /\ Before.rows[1][2] = Number("int", FALSE, 999, 1) /\ data.rows[1][2] = NaN
    /\ data.rows[1][1] = Number("float", FALSE, 99999, 100)

(* C19: when the header's missing_value item is a pair or a list,          *)
(* mask_missing_values raises no error and leaves every cell unchanged.    *)
C19_NonScalarSentinelSkipsMasking ==
    (ret.op = "mask_missing_values" /\ HasKey(header, MissingValueKey)
     /\ Get(header, MissingValueKey).type \in {"dict", "list"})
    => (ret.exc = "none" /\ data = Before)

-----------------------------------------------------------------------------
(* The reconstruction of a header string from its dict *)

\* the fields of the dicts reconstructed: None, no such key, '', 'a', 'a b'
FieldValues == {None, Missing, <<>>, <<"a">>, <<"a", " ", "b">>}

FileHeaderDicts == {Dict(v, u) : v \in FieldValues, u \in FieldValues}

ColumnHeaderDicts ==
    {Triple(n, u, t) : n \in FieldValues, u \in FieldValues, t \in FieldValues}

\* a document with one header item or one column header that is a dict
InitRec ==
    /\ \/ \E d \in FileHeaderDicts :
            metadata = [set |-> TRUE, header |-> <<[key |-> <<"a">>, val |-> d]>>,
                        column_headers |-> <<>>]
       \/ \E d \in ColumnHeaderDicts :
            metadata = [set |-> TRUE, header |-> <<>>,
                        column_headers |-> <<[key |-> <<"c">>, val |-> d]>>]
    /\ pc = "made"
    /\ fp = <<>>
    /\ pm = TRUE
    /\ header = <<>>
    /\ key = None
    /\ pos = 0
    /\ calls = 0
    /\ rets = <<>>
    /\ prev = [header |-> <<>>, key |-> None]
    /\ last = <<>>
    /\ hist = <<>>
    /\ doc = NoDoc
    /\ out = <<>>
    /\ data = NoData
    /\ ret = NoCall

\* XCSV.reconstruct_file_header_string(d) for the header item
ReconstructFileHeaderString ==
    /\ pc = "made" /\ ret.op = "none"
    /\ metadata.header # <<>>
    /\ ret' = [NoCall EXCEPT
                 !.op = "reconstruct_file_header_string",
                 !.key = metadata.header[1].key,
                 !.value = Str(reconstruct_file_header_string(metadata.header[1].val))]
    /\ UNCHANGED <<fp, pm, header, key, pos, pc, calls, rets, prev, last, hist, doc,
                   out, metadata, data>>

\* XCSV.reconstruct_column_header_string(d) for the column header
ReconstructColumnHeaderString ==
    /\ pc = "made" /\ ret.op = "none"
    /\ metadata.column_headers # <<>>
    /\ ret' = [NoCall EXCEPT
                 !.op = "reconstruct_column_header_string",
                 !.key = metadata.column_headers[1].key,
                 !.value = Str(reconstruct_column_header_string(
                                   metadata.column_headers[1].val))]
    /\ UNCHANGED <<fp, pm, header, key, pos, pc, calls, rets, prev, last, hist, doc,
                   out, metadata, data>>

NextRec == ReconstructFileHeaderString \/ ReconstructColumnHeaderString

SpecRec == InitRec /\ [][NextRec]_vars

\* a field is absent: None, or not a key of the dict
Absent(f) == f = None \/ f = Missing

\* what a field contributes: nothing when absent, else its text in its marks
Clause(pre, f, post) == IF Absent(f) THEN <<>> ELSE <<pre \o f \o post>>

\* up to three texts with one space between neighbours
Spaced(parts) ==
    IF Len(parts) = 0 THEN <<>>
    ELSE IF Len(parts) = 1 THEN parts[1]
    ELSE IF Len(parts) = 2 THEN parts[1] \o <<" ">> \o parts[2]
    ELSE parts[1] \o <<" ">> \o parts[2] \o <<" ">> \o parts[3]

(* C21: reconstruct_file_header_string and                                 *)
(* reconstruct_column_header_string render exactly the fields that are not *)
(* absent, in the order value, (units) and name, (units), [notes], with    *)
(* one space between them; a field that is None or missing contributes     *)
(* nothing: not the text None, and no parentheses or brackets.             *)
C21_ReconstructionOmitsAbsentFields ==
    /\ ret.op = "reconstruct_file_header_string" =>
        LET d == metadata.header[1].val
            text == ret.value.str
        IN /\ text = Spaced(Clause(<<>>, d.value, <<>>)
                            \o Clause(<<"(">>, d.units, <<")">>))
           /\ "N" \notin Chars(text)
           /\ Absent(d.units) => "(" \notin Chars(text)
    /\ ret.op = "reconstruct_column_header_string" =>
        LET d == metadata.column_headers[1].val
            text == ret.value.str
        IN /\ text = Spaced(Clause(<<>>, d.name, <<>>)
                            \o Clause(<<"(">>, d.units, <<")">>)
                            \o Clause(<<"[">>, d.notes, <<"]">>))
           /\ "N" \notin Chars(text)
           /\ Absent(d.units) => "(" \notin Chars(text)
           /\ Absent(d.notes) => "[" \notin Chars(text)

\* a column header with a name and notes, its units missing, rendered
C21_Witness ==
    /\ ret.op = "reconstruct_column_header_string"
    /\ metadata.column_headers[1].val = Triple(<<"a">>, Missing, <<"a", " ", "b">>)
    /\ ret.value.str = <<"a", " ", "[", "a", " ", "b", "]">>

-----------------------------------------------------------------------------
(* The two token grammars applied to every short string *)

MaxLabelLen == 4    \* characters of a column label
MaxValueLen == 6    \* characters of a header value

LabelChars == {"a", " ", "(", ")", "[", "]"}

ValueChars == {"a", " ", "(", ")"}

\* every str of at most n characters of cs
Strings(cs, n) == UNION {[1..m -> cs] : m \in 0..n}

\* the str to be tokenized is the key of the call to come, and its section
\* says which grammar it is for
InitTok ==
    /\ \/ \E s \in Strings(LabelChars, MaxLabelLen) :
            ret = [NoCall EXCEPT !.key = s, !.section = "column_headers"]
       \/ \E s \in Strings(ValueChars, MaxValueLen) :
            ret = [NoCall EXCEPT !.key = s, !.section = "header"]
    /\ pc = "idle"
    /\ fp = <<>>
    /\ pm = TRUE
    /\ header = <<>>
    /\ key = None
    /\ pos = 0
    /\ calls = 0
    /\ rets = <<>>
    /\ prev = [header |-> <<>>, key |-> None]
    /\ last = <<>>
    /\ hist = <<>>
    /\ doc = NoDoc
    /\ out = <<>>
    /\ metadata = NoMetadata
    /\ data = NoData

\* XCSV.parse_column_header_tokens(s)
ParseColumnHeaderTokens ==
    /\ pc = "idle" /\ ret.op = "none" /\ ret.section = "column_headers"
    /\ ret' = [ret EXCEPT !.op = "parse_column_header_tokens",
                          !.value = parse_column_header_tokens(ret.key)]
    /\ pc' = "parsed"
    /\ UNCHANGED <<fp, pm, header, key, pos, calls, rets, prev, last, hist, doc, out,
                   metadata, data>>

\* the if parse_metadata: block of read_header for the value s of a first
\* key: its tokens are taken, and they are stored if there are any, else s
StoreHeaderValue ==
    /\ pc = "idle" /\ ret.op = "none" /\ ret.section = "header"
    /\ ret' = [ret EXCEPT !.op = "parse_file_header_tokens",
                          !.value = parse_file_header_tokens(ret.key)]
    /\ header' = store_value(header, <<"a">>, ret.key, TRUE).header
    /\ pc' = "parsed"
    /\ UNCHANGED <<fp, pm, key, pos, calls, rets, prev, last, hist, doc, out,
                   metadata, data>>

NextTok == ParseColumnHeaderTokens \/ StoreHeaderValue

SpecTok == InitTok /\ [][NextTok]_vars

\* the str that was tokenized
Tokenized == ret.key

(* C22: for every str that contains an empty parenthesized clause "()" or  *)
(* an empty bracketed clause "[]" anywhere, parse_column_header_tokens is  *)
(* None.                                                                   *)
C22_EmptyClauseInvalidatesLabel ==
    (ret.op = "parse_column_header_tokens"
     /\ (contains(Tokenized, <<"(", ")">>) \/ contains(Tokenized, <<"[", "]">>)))
    => ret.value = NoneValue

\* s ends with a parenthesized suffix that follows whitespace
EndsWithSuffix(s) ==
    /\ Len(s) >= 3
    /\ s[Len(s)] = ")"
    /\ \E c \in 2..(Len(s) - 1) : s[c] = "(" /\ s[c - 1] \in Whitespace

\* s ends with the empty parenthesized suffix, after whitespace
EndsWithEmptySuffix(s) ==
    /\ Len(s) >= 3
    /\ s[Len(s) - 2] \in Whitespace
    /\ s[Len(s) - 1] = "("
    /\ s[Len(s)] = ")"

(* C23: for every str s, parse_file_header_tokens(s) is None when s does   *)
(* not end with a parenthesized suffix that follows whitespace, and also   *)
(* when the parenthesized suffix at its end is the empty "()"; and the     *)
(* value is stored as the plain str exactly when the tokens are None.      *)
C23_NoOrEmptyUnitsGiveNoTokens ==
    ret.op = "parse_file_header_tokens" =>
        /\ ~EndsWithSuffix(Tokenized) => ret.value = NoneValue
        /\ EndsWithEmptySuffix(Tokenized) => ret.value = NoneValue
        /\ (Get(header, <<"a">>) = Str(Tokenized)) = (ret.value = NoneValue)

-----------------------------------------------------------------------------
(* Reading without parse_metadata *)

\* a value is a plain str, or a list of plain strs
PlainValue(v) ==
    \/ v.type = "str"
    \/ v.type = "list" /\ \A j \in 1..Len(v.items) : v.items[j].type = "str"

(* C24: with parse_metadata=False every value that read_header stores is   *)
(* a plain str or a list of plain strs, the TypeError of a pair in a list  *)
(* item is not raised, and the name of every column-header entry is its    *)
(* label.                                                                  *)
C24_DisabledParsingStoresPlainText ==
    ~pm =>
        /\ \A i \in 1..Len(header) : PlainValue(header[i].val)
        /\ pc # "TypeError"
        /\ pc = "read" =>
            /\ metadata.header = header
            /\ Keys(metadata.column_headers) = read_csv_columns(fp)
            /\ \A i \in 1..Len(metadata.column_headers) :
                /\ metadata.column_headers[i].val.type = "triple"
                /\ metadata.column_headers[i].val.name = metadata.column_headers[i].key

\* a text with parenthesized units was added to an item as a plain str, and
\* the column a (b) has its label as its name
C24_Witness ==
    /\ ~pm /\ pc = "read"
    /\ \E i \in 1..Len(header) :
        /\ header[i].val.type = "list"
        /\ header[i].val.items[2] = Str(<<"1", ".", "5", " ", "(", "b", ")">>)
    /\ HasKey(metadata.column_headers, <<"a", " ", "(", "b", ")">>)
    /\ Get(metadata.column_headers, <<"a", " ", "(", "b", ")">>).name
         = <<"a", " ", "(", "b", ")">>

-----------------------------------------------------------------------------
(* Where read_header stops *)

\* the number of lines of the maximal run of comment lines that f begins with
RunLen(f) ==
    Max({n \in 0..Len(f) :
            \A i \in 1..n : startswith(skip_bom(f[i], i - 1), ReadComment)})

\* the header and key after the first n lines of f were read into an empty
\* header, or what they were when a line raised
RECURSIVE HeaderAfter(_, _)
HeaderAfter(f, n) ==
    IF n = 0 THEN [header |-> <<>>, key |-> None, exc |-> "none"]
    ELSE LET p == HeaderAfter(f, n - 1)
         IN IF p.exc # "none" THEN p
            ELSE read_line(p.header, p.key, skip_bom(f[n], n - 1), pm,
                           ReadComment, ReadDelimiter)

(* C25: read_header reads no line after the first that does not start      *)
(* with the comment prefix, and the header it returns is that of the       *)
(* maximal run of comment lines the stream begins with, whatever follows   *)
(* the run (stated for the first call on a Reader).                        *)
C25_ScanStopsAtFirstOtherLine ==
    calls = 1 =>
        /\ pos <= RunLen(fp) + 1
        /\ pc = "returned" =>
            /\ header = HeaderAfter(fp, RunLen(fp)).header
            /\ rets = <<header>>

\* the call returned at a line that is no comment, a comment line follows
\* it, and the header holds the items of the lines before it
C25_Witness ==
    /\ calls = 1 /\ pc = "returned"
    /\ header # <<>>
    /\ pos = RunLen(fp) + 1
    /\ pos < Len(fp)
    /\ startswith(fp[pos + 1], ReadComment)

-----------------------------------------------------------------------------
(* Continuation lines that hold the delimiter *)

\* a keyed line, continuations whose text holds the delimiter (after one
\* word, after two words, after a word that begins with the comment
\* character), a plain continuation and an escaped continuation
PitfallLines ==
    { <<"#", " ", "a", ":", " ", "a", "\n">>,                 \* # a: a
      <<"#", " ", "b", ":", "a", "\n">>,                      \* # b:a
      <<"#", " ", "a", " ", "b", ":", " ", "a", "\n">>,       \* # a b: a
      <<"#", " ", "#", "b", ":", "a", "\n">>,                 \* # #b:a
      <<"#", " ", "a", "\n">>,                                \* # a
      <<"#", " ", ":", " ", "a", "\n">> }                     \* # : a

PitfallStreams == UNION {[1..n -> PitfallLines] : n \in 1..MaxLines}

InitPit ==
    /\ fp \in PitfallStreams
    /\ pm \in BOOLEAN
    /\ header = <<>>
    /\ key = None
    /\ pos = 0
    /\ pc = "idle"
    /\ calls = 0
    /\ rets = <<>>
    /\ prev = [header |-> <<>>, key |-> None]
    /\ last = <<>>
    /\ hist = <<>>
    /\ doc = NoDoc
    /\ out = <<>>
    /\ metadata = NoMetadata
    /\ data = NoData
    /\ ret = NoCall

NextPit == ReadBack \/ ReadLine

SpecPit == InitPit /\ [][NextPit]_vars

\* the text left of the first delimiter of a comment line, without the
\* comment prefix and trimmed
LeftText(l) == TextOf(SubSeq(l, 1, FirstColon(l) - 1))

(* C26: a comment line that follows a keyed line, contains the delimiter   *)
(* and has text left of it (text that is no key of the header yet) creates *)
(* a new key, the trimmed text left of the first delimiter, with the text  *)
(* right of it as its value; every earlier item is unchanged and the new   *)
(* key is the current key.                                                 *)
C26_DelimiterInContinuationMakesKey ==
    (/\ Called
     /\ prev.key # None
     /\ KeyedForm(last)
     /\ ~HasKey(prev.header, LeftText(last)))
    => /\ pc \in {"reading", "returned"}
       /\ key = LeftText(last)
       /\ header = Append(prev.header,
                          [key |-> LeftText(last),
                           val |-> StoredForm(strip(RightOf(last)))])

-----------------------------------------------------------------------------
(* The TypeError of a {value, units} pair in a list item *)

\* the value that the call made last was to set
ValueSet == hist[Len(hist)].val

(* C27: whenever set_header_key_value raises the TypeError of a pair in a  *)
(* list item, the note of the error gives the text and the {value, units}  *)
(* components of the value that this call was setting, whatever the        *)
(* earlier elements of the item are.                                       *)
C27_ErrorNamesTheValueSet ==
    pc = "TypeError" =>
        /\ ret.op = "set_header_key_value"
        /\ ret.value.parsed = ValueSet
        /\ ret.value.line = ValueSet.value \o <<" ", "(">> \o ValueSet.units \o <<")">>

(* C29: when set_header_key_value raises the TypeError of a pair in a list *)
(* item, the header already holds the key as a list that ends with the     *)
(* pair the call was setting, after the elements the item had before, and  *)
(* the items of all other keys are unchanged.                              *)
C29_HeaderChangedBeforeError ==
    pc = "TypeError" =>
        LET k == prev.key
        IN /\ ValueSet.type = "dict"
           /\ HasKey(prev.header, k)
           /\ HasKey(header, k)
           /\ Get(header, k) =
                List((IF Get(prev.header, k).type = "list"
                      THEN Get(prev.header, k).items
                      ELSE <<Get(prev.header, k)>>) \o <<ValueSet>>)
           /\ Keys(header) = Keys(prev.header)
           /\ Others(header, k) = Others(prev.header, k)

\* the error was raised for a key that held a str, beside another key
C29_Witness ==
    /\ pc = "TypeError"
    /\ Len(header) = 2
    /\ Get(prev.header, prev.key).type = "str"
    /\ Get(header, prev.key) = List(<<Get(prev.header, prev.key), ValueSet>>)

-----------------------------------------------------------------------------
(* An escaped continuation as the first line *)

-----------------------------------------------------------------------------
(* Reader.read of a file with a header and a table with rows *)

\* the lines of f that pd.read_csv(fp, comment='#') takes for the table
table_lines(f) == SelectSeq(f, LAMBDA l : ~startswith(l, ReadComment))

\* the texts of the cells of the rows, the fields of the lines after the
\* header row
read_csv_texts(f) ==
    [r \in 1..(Len(table_lines(f)) - 1) |->
        SplitAll(SubSeq(table_lines(f)[r + 1], 1, Len(table_lines(f)[r + 1]) - 1),
                 <<",">>)]

\* the value pd.read_csv gives the cell of text t in a column of the texts
\* ts: an int when every text of the column is an int, else a float when
\* every text is a number, else the text itself
infer_cell(ts, t) ==
    IF \A i \in 1..Len(ts) : int_parses(ts[i]) THEN int_of(t)
    ELSE IF \A i \in 1..Len(ts) : float_parses(ts[i]) THEN float_of(t)
    ELSE Str(t)

\* pd.read_csv(fp, comment='#') of a file whose fields are neither quoted
\* nor empty
read_csv(f) ==
    LET texts == read_csv_texts(f)
    IN [columns |-> read_csv_columns(f),
        rows |-> [r \in 1..Len(texts) |->
                    [j \in 1..Len(texts[r]) |->
                        infer_cell([i \in 1..Len(texts) |-> texts[i][j]], texts[r][j])]]]

\* the header sections of the files: a missing_value of 999, of 1.5, with
\* units, after another item, and none
ReadHeaders ==
    { << <<"#", " ", "m", "i", "s", "s", "i", "n", "g", "_", "v", "a", "l", "u", "e",
           ":", " ", "9", "9", "9", "\n">> >>,
      << <<"#", " ", "a", ":", " ", "1", "\n">>,
         <<"#", " ", "m", "i", "s", "s", "i", "n", "g", "_", "v", "a", "l", "u", "e",
           ":", " ", "1", ".", "5", "\n">> >>,
      << <<"#", " ", "m", "i", "s", "s", "i", "n", "g", "_", "v", "a", "l", "u", "e",
           ":", " ", "9", "9", "9", " ", "(", "m", ")", "\n">> >>,
      << <<"#", " ", "a", ":", " ", "1", "\n">> >> }

\* the texts of the cells of the files
CellTexts == { <<"9", "9", "9">>, <<"1", ".", "5">>, <<"x">> }

\* the lines of the tables: a header row of n labels, then up to MaxRows
\* rows of n cells
TableLines ==
    UNION { UNION { { <<csv_line(MaskColumns(n))>>
                      \o [r \in 1..m |-> csv_line(rows[r])] :
                        rows \in [1..m -> [1..n -> CellTexts]] } :
                    m \in 1..MaxRows } :
            n \in 1..MaxCols }

InitRead ==
    /\ \E h \in ReadHeaders, t \in TableLines : fp = h \o t
    /\ pm \in BOOLEAN
    /\ header = <<>>
    /\ key = None
    /\ pos = 0
    /\ pc = "idle"
    /\ calls = 0
    /\ rets = <<>>
    /\ prev = [header |-> <<>>, key |-> None]
    /\ last = <<>>
    /\ hist = <<>>
    /\ doc = NoDoc
    /\ out = <<>>
    /\ metadata = NoMetadata
    /\ data = NoData
    /\ ret = NoCall

\* self.read_data(...) in Reader.read; ret keeps the table it returned
ReadDataCall ==
    /\ pc = "returned"
    /\ data' = read_csv(fp)
    /\ ret' = [NoCall EXCEPT !.op = "read_data", !.value = read_csv(fp)]
    /\ pc' = "data"
    /\ UNCHANGED <<fp, pm, header, key, pos, calls, rets, prev, last, hist, doc, out,
                   metadata>>

\* ReadPostProcess calling post_process_data whatever parse_metadata is
ReadPostProcessAlways ==
    /\ pc = "data"
    /\ LET r == mask_missing_values(header, data)
       IN /\ data' = r.data
          /\ pc' = IF r.exc = "none" THEN "processed" ELSE r.exc
          /\ ret' = [NoCall EXCEPT !.op = "mask_missing_values", !.exc = r.exc,
                                   !.value = data]
    /\ UNCHANGED <<fp, pm, header, key, pos, calls, rets, prev, last, hist, doc, out,
                   metadata>>

\* if parse_metadata: self.post_process_data() in Reader.read; ret keeps
\* the table as it was before mask_missing_values was called
ReadPostProcess ==
    /\ pc = "data"
    /\ IF pm
       THEN LET r == mask_missing_values(header, data)
            IN /\ data' = r.data
               /\ pc' = IF r.exc = "none" THEN "processed" ELSE r.exc
               /\ ret' = [NoCall EXCEPT !.op = "mask_missing_values", !.exc = r.exc,
                                        !.value = data]
       ELSE /\ pc' = "processed"
            /\ UNCHANGED <<data, ret>>
    /\ UNCHANGED <<fp, pm, header, key, pos, calls, rets, prev, last, hist, doc, out,
                   metadata>>

\* self.xcsv = XCSV(metadata=metadata, data=self.data) in Reader.read
MakeXCSV ==
    /\ pc = "processed"
    /\ metadata' = [set |-> TRUE, header |-> header,
                    column_headers |-> parse_column_headers(data.columns, pm)]
    /\ pc' = "read"
    /\ UNCHANGED <<fp, pm, header, key, pos, calls, rets, prev, last, hist, doc, out,
                   data, ret>>

NextRead == ReadBack \/ ReadLine \/ ReadDataCall \/ ReadPostProcess \/ MakeXCSV

SpecRead == InitRead /\ [][NextRead]_vars

\* the missing_value item is absent or a plain str
NoOrScalarSentinel ==
    HasKey(header, MissingValueKey) => Get(header, MissingValueKey).type = "str"

(* C30: Reader.read with parse_metadata=False never calls                  *)
(* mask_missing_values and returns the table as read_data returned it,     *)
(* also when the header has a missing_value item; with parse_metadata=True *)
(* the masking is done once read_header and read_data have returned, and   *)
(* the document is made after it, with the masked table (stated, for the   *)
(* masking itself, for a missing_value that is a scalar or absent).        *)
C30_MaskingOnlyWithParseMetadata ==
    /\ ret.op = "mask_missing_values" =>
        /\ pm
        /\ rets = <<header>>
        /\ Before = read_csv(fp)
    /\ metadata.set => (pc = "read" /\ metadata.header = header)
    /\ (pc = "read" /\ ~pm) =>
        /\ ret.op = "read_data"
        /\ data = ret.value
    /\ (pc = "read" /\ pm /\ NoOrScalarSentinel) =>
        /\ ret.op = "mask_missing_values"
        /\ data.columns = Before.columns
        /\ Len(data.rows) = Len(Before.rows)
        /\ \A r \in 1..Len(Before.rows) : \A j \in 1..Len(Before.columns) :
            data.rows[r][j] =
                IF HasKey(header, MissingValueKey)
                   /\ EqualsSentinel(Before.rows[r][j],
                                     CastOf(Get(header, MissingValueKey).str))
                THEN NaN ELSE Before.rows[r][j]

\* read without parse_metadata, the header has the missing_value 999 and
\* the table still has its 999
C30_Witness ==
    /\ pc = "read" /\ ~pm
    /\ HasKey(metadata.header, MissingValueKey)
    /\ Get(metadata.header, MissingValueKey) = Str(<<"9", "9", "9">>)
    /\ data.rows[1][1] = Number("int", FALSE, 999, 1)

=============================================================================
